---- MODULE Spec2Model ----
(***************************************************************************)
(* A model of the feedly python client: the paginated stream cursor        *)
(* (feedly/stream.py, StreamBase), the rate limiter (feedly/protocol.py,   *)
(* RateLimiter) and the request executor (feedly/session.py,               *)
(* FeedlySession.do_api_request).                                          *)
(*                                                                         *)
(* The specifications share the variables:                                 *)
(*   SpecLimiter  one RateLimiter driven directly as time passes;          *)
(*   SpecValidate one FeedlySession called with any arguments;             *)
(*   SpecStream   one StreamBase object iterated, abandoned, reset and     *)
(*                iterated again over an idempotent paginated source;      *)
(*   SpecSession  one FeedlySession serving a sequence of do_api_request   *)
(*                calls, with the nested calls of the token refresh.       *)
(***************************************************************************)
EXTENDS Integers, Sequences, FiniteSets, TLC

VARIABLES
    \* ---- StreamBase (stream.py:125-165) and the source it pages over
    continuation,   \* self.continuation: None, '' or a server token
    buffer,         \* self.buffer: items fetched and not yet yielded
    n,              \* __iter__'s local n: items yielded by this iteration
    spc,            \* position of the generator of __iter__
    yielded,        \* history: items yielded by the current iteration
    requests,       \* history: continuation parameter of each page request
    origin,         \* history: how the current iteration began
    runs,           \* history: number of iterations started
    max_count,      \* options._max_count
    count,          \* options.count, the page size asked of the server
    pages,          \* the source: its pages, in order
    uniform,        \* TRUE: an endless source of full pages
    self_id,        \* self.id, the stream id
    options,        \* self.options: the fields newerThan and continuation
    iter_url,       \* __iter__'s local url, built when the iteration starts
    sent,           \* history: the url of each page request of the iteration
    start,          \* history: the cursor when the iteration started
    \* ---- FeedlySession (session.py:66-218) and RateLimiter (protocol.py:61-89)
    now,            \* time.time()
    rl_count,       \* rate_limiter.count
    rl_limit,       \* rate_limiter.limit
    rl_until,       \* rate_limiter.until
    auth_token,     \* auth.auth_token
    refresh_token,  \* auth.refresh_token
    last_refresh,   \* _last_token_refresh_attempt
    stack,          \* per caller: the active do_api_request frames
    ret,            \* per caller: outcome a finished nested call hands back
    result,         \* per caller: outcome of the last top-level call
    netlog,         \* history, per caller: HTTP calls of the top-level call
                    \* (hdr: the headers handed to rate_limiter.update())
    sleeps,         \* history, per caller: time.sleep() arguments
    hist,           \* history, per caller: the top-level call and its refresh
    calls,          \* number of top-level calls started
    faults,         \* number of transient failures the environment produced
    forced,         \* history: the last make_rate_limited() of a 429
    lim,            \* history: the calls made on the RateLimiter directly
    \* ---- LazyStreams (api_client/data.py:183-235)
    listing,        \* the list the list endpoint serves at present
    lazy,           \* the LazyStreams object: populated and its cached
                    \* properties streams, id2stream, name2stream
    rlog,           \* history: list requests made, the last call's outcome
    \* ---- StreamIdBase and its subclasses (stream.py:13-101)
    sid,            \* one stream id: the constructor's arguments, the object
                    \* built, the object parsed back from its id
    \* ---- IoCDownloaderABC (indicators_of_compromise.py:22-68)
    ioc             \* one downloader and the generator of stream_bundles()

streamVars  == <<continuation, buffer, n, spc, yielded, requests, origin,
                 runs, max_count, count, pages, uniform, self_id, options,
                 iter_url, sent, start>>
sessionVars == <<now, rl_count, rl_limit, rl_until, auth_token, refresh_token,
                 last_refresh, stack, ret, result, netlog, sleeps, hist,
                 calls, faults, forced, lim>>
dataVars    == <<listing, lazy, rlog, sid, ioc>>
vars        == <<streamVars, sessionVars, dataVars>>

----------------------------------------------------------------------------
(* Bounds of the model.                                                    *)

MaxPages   == 3     \* pages of a finite source
MaxPageLen == 2     \* items on one page; also the largest options.count
MaxMaxCount == 4    \* largest options._max_count
MaxRuns    == 3     \* iterations of one StreamBase object

----------------------------------------------------------------------------
(* Python values.                                                          *)

\* None, where the other values of the field are integers.
None == -1
\* The empty string '' of self.continuation; server tokens are 1, 2, ...
EmptyStr == 0

\* Truthiness of a str-or-None continuation: non-empty strings only.
Truthy(c) == c # None /\ c # EmptyStr

Min(a, b) == IF a <= b THEN a ELSE b

----------------------------------------------------------------------------
(* The paginated source.  Page p holds the items p*10+1, p*10+2, ...; a    *)
(* request without continuation is answered with page 1, a request with    *)
(* token k with page k+1.  The response to page p carries the token p when *)
(* another page follows, and no continuation otherwise.                    *)

Item(p, j) == p * 10 + j

PageOf(len, p) ==
    [has |-> len >= 0,
     items |-> [j \in 1..(IF len >= 0 THEN len ELSE 0) |-> Item(p, j)]]

\* The page a request with continuation parameter c is answered with.
PageIndex(c) == IF Truthy(c) THEN c + 1 ELSE 1

\* resp[items_prop] when the property is in the response.
RespHasItems(p) == IF uniform THEN TRUE ELSE pages[p].has
RespItems(p) ==
    IF uniform THEN [j \in 1..count |-> Item(p, j)] ELSE pages[p].items

\* resp.get('continuation')
RespContinuation(p) ==
    IF uniform \/ p < Len(pages) THEN p ELSE None

----------------------------------------------------------------------------
(* StreamBase.__iter__, stream.py:140-165.                                 *)

\* Mutant of OuterCond: the leftover buffer is not looked at.
OuterCond_NoBuffer(n_, max_, cont_, buf_) ==
    n_ < max_ /\ cont_ # None

\* line 149: while n < max_count and (continuation is not None or buffer)
OuterCond(n_, max_, cont_, buf_) ==
    n_ < max_ /\ (cont_ # None \/ buf_ # <<>>)

\* line 151: i = self.buffer.pop()  -- list.pop() takes the LAST element
PopItem(buf_) == buf_[Len(buf_)]
PopRest(buf_) == SubSeq(buf_, 1, Len(buf_) - 1)

\* Mutant of AtCap: the inner loop never breaks.
AtCap_Never(n_, max_) == FALSE

\* line 154: if n == max_count: break
AtCap(n_, max_) == n_ = max_

\* Mutant of ShouldFetch: the count of yielded items is not looked at.
ShouldFetch_NoCap(cont_, n_, max_) == cont_ # None

\* line 157: if self.continuation is not None and n < max_count
ShouldFetch(cont_, n_, max_) == cont_ # None /\ n_ < max_

\* line 158: the continuation parameter of the request; EmptyStr = none sent
ContinuationParam(cont_) == IF Truthy(cont_) THEN cont_ ELSE EmptyStr

\* lines 162-164: the buffer after a response
BufferAfter(buf_, p) == IF RespHasItems(p) THEN RespItems(p) ELSE buf_

\* StreamOptions.__init__, stream.py:115-121: newerThan and continuation as
\* the constructor leaves them.
DefaultOptions == [newerThan |-> None, continuation |-> None]

\* self.options.__dict__.items(), in the order of StreamOptions.__init__
\* (ranked and unreadOnly, which the model never changes, are left out).
OptionFields(count_, max_, opts) ==
    <<[k |-> "count", private |-> FALSE, v |-> count_],
      [k |-> "newerThan", private |-> FALSE, v |-> opts.newerThan],
      [k |-> "_max_count", private |-> TRUE, v |-> max_],
      [k |-> "continuation", private |-> FALSE, v |-> opts.continuation]>>

\* line 146: if v is not None and k[0] != '_'
InUrl(f) == f.v # None /\ ~f.private

\* lines 143-147: the url of the iteration: the stream id and, as query
\* parameters, the option fields that pass the test of line 146.
Url(id_, fields) ==
    [streamId |-> id_,
     params |-> [i \in 1..Len(SelectSeq(fields, InUrl)) |->
                    [k |-> SelectSeq(fields, InUrl)[i].k,
                     v |-> SelectSeq(fields, InUrl)[i].v]]]

\* Before the first iteration there is no url.
NoUrl == [streamId |-> None, params |-> <<>>]

\* line 158: the url of one page request
Curl(url_, cont_) ==
    IF Truthy(cont_)
    THEN [url_ EXCEPT !.params =
              Append(@, [k |-> "continuation", v |-> cont_])]
    ELSE url_

\* The continuation parameters of a request, in the order of the query.
IsContinuation(q) == q.k = "continuation"
ContinuationParams(curl) == SelectSeq(curl.params, IsContinuation)

\* The page the source answers a request with: the first page when the
\* query has no continuation parameter; the source reads the last one when
\* the query has several.
PageAsked(curl) ==
    IF ContinuationParams(curl) = <<>> THEN 1
    ELSE ContinuationParams(curl)[Len(ContinuationParams(curl))].v + 1

\* No iteration was started yet.
NoStart ==
    [cont |-> None, buf |-> <<>>, raised |-> FALSE, last |-> None, sets |-> 0]

----------------------------------------------------------------------------
(* Initial state of a StreamBase, stream.py:127-135, over some source.     *)

Sources ==
    UNION {[1..np -> (-1)..MaxPageLen] : np \in 1..MaxPages}

InitStreamVars ==
    /\ continuation = EmptyStr
    /\ buffer = <<>>
    /\ n = 0
    /\ spc = "idle"
    /\ yielded = <<>>
    /\ requests = <<>>
    /\ origin = "fresh"
    /\ runs = 0
    /\ self_id = 1
    /\ options = DefaultOptions
    /\ iter_url = NoUrl
    /\ sent = <<>>
    /\ start = NoStart
    /\ max_count \in 0..MaxMaxCount
    /\ count \in 1..MaxPageLen
    /\ \/ /\ uniform = TRUE
          /\ pages = <<>>
       \/ /\ uniform = FALSE
          /\ count = MaxPageLen
          /\ \E lens \in Sources :
                pages = [p \in 1..Len(lens) |-> PageOf(lens[p], p)]

\* Mutant of IterStart: the count of yielded items is kept in the cursor.
IterStart_KeepsCount ==
    /\ spc \in {"idle", "done", "raised"}
    /\ runs < MaxRuns
    /\ runs' = runs + 1
    /\ spc' = "outer"
    /\ n' = n
    /\ yielded' = <<>>
    /\ requests' = <<>>
    /\ origin' = IF spc = "idle" THEN origin ELSE "again"
    /\ iter_url' = Url(self_id, OptionFields(count, max_count, options))
    /\ sent' = <<>>
    /\ start' = [cont |-> continuation, buf |-> buffer,
                 raised |-> spc = "raised",
                 last |-> IF requests = <<>> THEN None
                          ELSE requests[Len(requests)],
                 sets |-> start.sets]
    /\ UNCHANGED <<continuation, buffer, max_count, count, pages, uniform,
                   self_id, options>>
    /\ UNCHANGED <<sessionVars, dataVars>>

\* iter(stream): a new generator; its local n starts at 0 (line 144).
IterStart ==
    /\ spc \in {"idle", "done", "raised"}
    /\ runs < MaxRuns
    /\ runs' = runs + 1
    /\ spc' = "outer"
    /\ n' = 0
    /\ yielded' = <<>>
    /\ requests' = <<>>
    /\ origin' = IF spc = "idle" THEN origin ELSE "again"
    /\ iter_url' = Url(self_id, OptionFields(count, max_count, options))
    /\ sent' = <<>>
    /\ start' = [cont |-> continuation, buf |-> buffer,
                 raised |-> spc = "raised",
                 last |-> IF requests = <<>> THEN None
                          ELSE requests[Len(requests)],
                 sets |-> start.sets]
    /\ UNCHANGED <<continuation, buffer, max_count, count, pages, uniform,
                   self_id, options>>
    /\ UNCHANGED <<sessionVars, dataVars>>

\* line 149: the outer while test.
OuterLoop ==
    /\ spc = "outer"
    /\ spc' = IF OuterCond(n, max_count, continuation, buffer)
              THEN "inner" ELSE "done"
    /\ UNCHANGED <<continuation, buffer, n, yielded, requests, origin,
                   runs, max_count, count, pages, uniform,
                   self_id, options, iter_url, sent, start>>
    /\ UNCHANGED <<sessionVars, dataVars>>

\* lines 150-152: the inner while pops an item and yields it; the generator
\* is suspended at the yield.
InnerYield ==
    /\ spc = "inner"
    /\ buffer # <<>>
    /\ yielded' = Append(yielded, PopItem(buffer))
    /\ buffer' = PopRest(buffer)
    /\ spc' = "yield"
    /\ UNCHANGED <<continuation, n, requests, origin, runs, max_count, count,
                   pages, uniform,
                   self_id, options, iter_url, sent, start>>
    /\ UNCHANGED <<sessionVars, dataVars>>

\* lines 153-155: next() resumes the generator after the yield.
Resume ==
    /\ spc = "yield"
    /\ n' = n + 1
    /\ spc' = IF AtCap(n + 1, max_count) THEN "fetch" ELSE "inner"
    /\ UNCHANGED <<continuation, buffer, yielded, requests, origin, runs,
                   max_count, count, pages, uniform,
                   self_id, options, iter_url, sent, start>>
    /\ UNCHANGED <<sessionVars, dataVars>>

\* line 150: the inner while ends on an empty buffer.
InnerExit ==
    /\ spc = "inner"
    /\ buffer = <<>>
    /\ spc' = "fetch"
    /\ UNCHANGED <<continuation, buffer, n, yielded, requests, origin,
                   runs, max_count, count, pages, uniform,
                   self_id, options, iter_url, sent, start>>
    /\ UNCHANGED <<sessionVars, dataVars>>

\* lines 157-165: the page request, answered by the source.
FetchPage ==
    /\ spc = "fetch"
    /\ ShouldFetch(continuation, n, max_count)
    /\ LET p == PageAsked(Curl(iter_url, continuation)) IN
          /\ requests' = Append(requests, ContinuationParam(continuation))
          /\ sent' = Append(sent, Curl(iter_url, continuation))
          /\ continuation' = RespContinuation(p)
          /\ buffer' = BufferAfter(buffer, p)
    /\ spc' = "outer"
    /\ UNCHANGED <<n, yielded, origin, runs, max_count, count, pages, uniform,
                   self_id, options, iter_url, start>>
    /\ UNCHANGED <<sessionVars, dataVars>>

\* Mutant of FetchRaises: the failed request leaves the cursor as new.
FetchRaises_Rewinds ==
    /\ spc = "fetch"
    /\ ShouldFetch(continuation, n, max_count)
    /\ requests' = Append(requests, ContinuationParam(continuation))
    /\ sent' = Append(sent, Curl(iter_url, continuation))
    /\ spc' = "raised"
    /\ continuation' = EmptyStr
    /\ UNCHANGED <<buffer, n, yielded, origin, runs, max_count, count, pages,
                   uniform, self_id, options, iter_url, start>>
    /\ UNCHANGED <<sessionVars, dataVars>>

\* line 161: do_api_request raises; the generator dies with the exception.
FetchRaises ==
    /\ spc = "fetch"
    /\ ShouldFetch(continuation, n, max_count)
    /\ requests' = Append(requests, ContinuationParam(continuation))
    /\ sent' = Append(sent, Curl(iter_url, continuation))
    /\ spc' = "raised"
    /\ UNCHANGED <<continuation, buffer, n, yielded, origin, runs, max_count,
                   count, pages, uniform,
                   self_id, options, iter_url, start>>
    /\ UNCHANGED <<sessionVars, dataVars>>

\* line 157: the condition is false, back to the outer test.
FetchSkip ==
    /\ spc = "fetch"
    /\ ~ShouldFetch(continuation, n, max_count)
    /\ spc' = "outer"
    /\ UNCHANGED <<continuation, buffer, n, yielded, requests, origin,
                   runs, max_count, count, pages, uniform,
                   self_id, options, iter_url, sent, start>>
    /\ UNCHANGED <<sessionVars, dataVars>>

\* The consumer stops consuming: the generator suspended at the yield of
\* line 152 is dropped.
Abandon ==
    /\ spc = "yield"
    /\ spc' = "idle"
    /\ origin' = "again"
    /\ UNCHANGED <<continuation, buffer, n, yielded, requests, runs,
                   max_count, count, pages, uniform,
                   self_id, options, iter_url, sent, start>>
    /\ UNCHANGED <<sessionVars, dataVars>>

\* Mutant of ResetContinuation: reset() stores None.
ResetContinuation_None(cont_) == None

\* StreamBase.reset, stream.py:137-138.
ResetContinuation(cont_) == EmptyStr
ResetBuffer(buf_) == buf_

Reset ==
    /\ spc \in {"idle", "done", "raised"}
    /\ continuation' = ResetContinuation(continuation)
    /\ buffer' = ResetBuffer(buffer)
    /\ spc' = "idle"
    /\ origin' = "reset"
    /\ UNCHANGED <<n, yielded, requests, runs, max_count, count, pages,
                   uniform,
                   self_id, options, iter_url, sent, start>>
    /\ UNCHANGED <<sessionVars, dataVars>>

\* Bound: assignments to the stream's id and options in one run.
MaxSets == 2

\* The values a caller gives the options: newerThan a timestamp,
\* continuation a token of the source.
OptionChoices ==
    [newerThan : {None, 7},
     continuation : {None} \cup
         {k \in 1..MaxPages : uniform \/ k < Len(pages)}]

\* The consumer's code, which runs while no generator is running: it
\* assigns stream.options.newerThan and stream.options.continuation.
SetOptions ==
    /\ spc \in {"idle", "yield", "done", "raised"}
    /\ start.sets < MaxSets
    /\ \E o \in OptionChoices : o # options /\ options' = o
    /\ start' = [start EXCEPT !.sets = @ + 1]
    /\ UNCHANGED <<continuation, buffer, n, spc, yielded, requests, origin,
                   runs, max_count, count, pages, uniform, self_id,
                   iter_url, sent>>
    /\ UNCHANGED <<sessionVars, dataVars>>

\* The consumer's code assigns stream.id.
SetId ==
    /\ spc \in {"idle", "yield", "done", "raised"}
    /\ start.sets < MaxSets
    /\ self_id' = 3 - self_id
    /\ start' = [start EXCEPT !.sets = @ + 1]
    /\ UNCHANGED <<continuation, buffer, n, spc, yielded, requests, origin,
                   runs, max_count, count, pages, uniform, options,
                   iter_url, sent>>
    /\ UNCHANGED <<sessionVars, dataVars>>

----------------------------------------------------------------------------
(* RateLimiter, protocol.py:61-89.                                         *)

\* Python truthiness of an Optional[int]: None and 0 are falsy.
PyTruthy(x) == x # None /\ x # 0

\* Mutant of RateLimited: the reset time is not looked at.
RateLimited_Forever(c, l, u, t) ==
    PyTruthy(c) /\ PyTruthy(l) /\ PyTruthy(u) /\ c >= l

\* Mutant of RateLimited: count must exceed limit.
RateLimited_Strict(c, l, u, t) ==
    PyTruthy(c) /\ PyTruthy(l) /\ PyTruthy(u) /\ c > l /\ t < u

\* RateLimiter.rate_limited, protocol.py:67-70 (None, when a field is not
\* set, is falsy).
RateLimited(c, l, u, t) ==
    PyTruthy(c) /\ PyTruthy(l) /\ PyTruthy(u) /\ c >= l /\ t < u

\* The value of the rate_limited property, protocol.py:67-70: the function
\* falls off its end, returning None, when a field is falsy.
QueryResult(c, l, u, t) ==
    IF PyTruthy(c) /\ PyTruthy(l) /\ PyTruthy(u)
    THEN (IF c >= l /\ t < u THEN "True" ELSE "False")
    ELSE "None"

\* RateLimiter.make_rate_limited(t=60), protocol.py:72-75.
CoolDown == 60

\* RateLimiter.update, protocol.py:77-86: the three fields after a response
\* whose headers are h.
\* Mutant of UpdateUntil: the delay is stored as if it were a time.
UpdateUntil_Absolute(u, h, t) == IF PyTruthy(h.reset) THEN h.reset ELSE u

UpdateCount(c, h) == IF PyTruthy(h.count) THEN h.count ELSE c
UpdateLimit(l, h) == IF PyTruthy(h.limit) THEN h.limit ELSE l
UpdateUntil(u, h, t) == IF PyTruthy(h.reset) THEN t + h.reset ELSE u

\* RateLimiter.update, protocol.py:88-89: what update() returns (None when
\* it falls off the end).
UpdateReturn(h) ==
    IF PyTruthy(h.count) /\ PyTruthy(h.limit) THEN h.count <= h.limit
                                               ELSE None

----------------------------------------------------------------------------
(* FeedlySession.do_api_request, session.py:118-218.                       *)

Callers == {"c1", "c2"}

\* session.py:89: self.max_tries
DefaultMaxTries == 3
\* session.py:199: a refresh is attempted at most once in 86400 seconds
RefreshWindow == 86400

\* The max_tries a caller passes in range: from 1 to the session's default.
MaxTriesArg == DefaultMaxTries

\* Bounds of the model.
MaxCalls    == 2        \* top-level do_api_request calls of one run
StartTime   == 100000   \* time.time() when the session is constructed
MaxFaults   == 3        \* transient failures (OSError, 503) of one run

NoHeaders      == [count |-> None, limit |-> None, reset |-> None]
LimitedHeaders == [count |-> 5, limit |-> 5, reset |-> 60]
HeaderChoices  == {NoHeaders, LimitedHeaders}

ErrorStatuses == {400, 401, 404, 429, 500, 503}

\* What one session.request() call (line 177) can end with: an OSError
\* (conn), or a response with a status, rate-limit headers and a body.  The
\* body "token" is a JSON object with an access_token, "data" any other JSON,
\* "empty" no content.
ConnError == [conn |-> TRUE, status |-> 0, hdr |-> NoHeaders, body |-> "empty",
              token |-> None]

OkResponses(path, tok) ==
    {[conn |-> FALSE, status |-> 200, hdr |-> h, body |-> b,
      token |-> IF b = "token" THEN tok + 1 ELSE None] :
        h \in HeaderChoices,
        b \in IF path = "auth" THEN {"empty", "data", "token"}
                               ELSE {"empty", "data"}}

ErrorResponses ==
    {[conn |-> FALSE, status |-> st, hdr |-> h, body |-> "data",
      token |-> None] : st \in ErrorStatuses, h \in HeaderChoices}

\* The failures the loop retries: connection errors and 5xx statuses above
\* 500.  The environment produces at most MaxFaults of them in one run.
Transient(o) == o.conn \/ o.status > 500

Outcomes(path, tok, nfaults) ==
    {o \in {ConnError} \cup OkResponses(path, tok) \cup ErrorResponses :
        Transient(o) => nfaults < MaxFaults}

\* requests.Response.ok / Response.__bool__: no 4xx or 5xx status.
RespOk(o) == o.status < 400

\* line 181: `if resp:` -- resp is None after an OSError, and a Response is
\* truthy only when it is ok.
RespTruthy(o) == ~o.conn /\ RespOk(o)

\* line 184: if not conn_error and resp.ok
Succeeded(o) == ~o.conn /\ RespOk(o)

\* Mutant of NoRetryStatus: the lower end of the range is excluded.
NoRetryStatus_Above400(st) == 400 < st /\ st <= 500

\* line 187: the statuses that are not retried
NoRetryStatus(st) == 400 <= st /\ st <= 500

\* line 187: if tries == max_tries or (resp is not None and 400 <= code <= 500)
GiveUp(tries, max_tries, o) ==
    tries = max_tries \/ (~o.conn /\ NoRetryStatus(o.status))

\* Mutant of Backoff: one second after every failure.
Backoff_Constant(tries) == 1

\* line 193: time.sleep(2 ** (tries - 1))
Backoff(tries) == 2 ^ (tries - 1)

\* Mutant of Parsed: the body is parsed even when it is empty.
Parsed_Always(o) == o.body

\* line 185: resp.json() if the body is not empty, else None
Parsed(o) == IF o.body = "empty" THEN "None" ELSE o.body

NoOutcome == [kind |-> "none", exc |-> "", val |-> "", token |-> None,
              status |-> 0]
Returned(o) == [kind |-> "return", exc |-> "", val |-> Parsed(o),
                token |-> o.token, status |-> o.status]
Raised(e, st) == [kind |-> "raise", exc |-> e, val |-> "", token |-> None,
                  status |-> st]

\* lines 163-164 with 194-195 and protocol.py:41-51: RateLimitedAPIError(None)
\* is raised inside the try block; it is an HTTPError, so the handler of line
\* 194 catches it and reads e.response.status_code.  With ex = None the
\* constructor stored a plain dict as response, which has no such attribute.
ResponseHasStatusCode(ex) == ex # None
PreemptedError(ex) ==
    IF ResponseHasStatusCode(ex) THEN "RateLimitedAPIError"
                                 ELSE "AttributeError"

\* Mutant of Classify: 500 is re-raised as the plain HTTPError.
Classify_NoServerError(code) ==
    CASE code = 400 -> "BadRequestAPIError"
      [] code = 401 -> "UnauthorizedAPIError"
      [] code = 429 -> "RateLimitedAPIError"
      [] OTHER      -> "HTTPError"

\* lines 196-218: the error a status maps to when no refresh is attempted.
Classify(code) ==
    CASE code = 400 -> "BadRequestAPIError"
      [] code = 401 -> "UnauthorizedAPIError"
      [] code = 429 -> "RateLimitedAPIError"
      [] code = 500 -> "ServerAPIError"
      [] OTHER      -> "HTTPError"

\* Mutant of RefreshEligible: the time of the last attempt is not looked at.
RefreshEligible_NoWindow(path, rtok, t, last) ==
    path # "auth" /\ rtok # None

\* line 199: the refresh condition
RefreshEligible(path, rtok, t, last) ==
    path # "auth" /\ rtok # None /\ t - last > RefreshWindow

\* Mutant of HasAccessToken: any returned body is taken to hold a token.
HasAccessToken_AnyReturn(r) == r.kind = "return"

\* line 205: self.auth.auth_token = token_data['access_token'] raises
\* TypeError on None and KeyError on a body without the key.
HasAccessToken(r) == r.kind = "return" /\ r.val = "token"

\* Mutant of StoredToken: the returned token is not stored.
StoredToken_Old(old, r) == old

\* line 205: the token stored after a refresh that returned one
StoredToken(old, r) == r.token

\* The arguments of do_api_request, lines 118-119, as the caller passed them.
\* relative_url is one of Urls; method is "default" (None), "get" or "post";
\* data is "none" (None), "empty" ({}) or "body"; max_tries is None or a
\* number.
Urls == {"", "v3/profile", "/v2/profile", "/v3/profile", "/v3/auth/token"}
Methods == {"default", "get", "post"}
Bodies == {"none", "empty", "body"}
NoArgs == [url |-> "/v3/profile", method |-> "default", data |-> "none",
           timeout |-> None, max_tries |-> None]

\* lines 142-143: a '/' is put in front of a url that does not start with one
WithSlash(url) ==
    IF url = "v3/profile" THEN "/v3/profile" ELSE url

\* line 145: relative_url.startswith('/v3/')
StartsWithV3(url) == url \in {"/v3/profile", "/v3/auth/token"}

\* line 199: relative_url.startswith('/v3/auth')
PathOf(url) == IF url = "/v3/auth/token" THEN "auth" ELSE "api"
UrlOf(path) == IF path = "auth" THEN "/v3/auth/token" ELSE "/v3/profile"

\* lines 136-137: max_tries defaults to self.max_tries
ResolveMaxTries(m) == IF m = None THEN DefaultMaxTries ELSE m

\* lines 156-157: method defaults to get, or to post when there is data
ResolveMethod(method, data) ==
    IF method = "default" THEN (IF data = "none" THEN "get" ELSE "post")
                          ELSE method

\* line 148: if 10 < max_tries < 0
InvalidMaxTries(m) == 10 < m /\ m < 0

\* line 159: if method == 'get' and data is not None
GetWithData(method, data) ==
    ResolveMethod(method, data) = "get" /\ data # "none"

\* lines 139-160: the exception the checks before the try block raise, in
\* the order of the code, or "ok".  relative_url[0] raises IndexError on the
\* empty string.
Validate(tok, url, method, data, m) ==
    CASE tok = None -> "ValueError"
      [] url = "" -> "IndexError"
      [] ~StartsWithV3(WithSlash(url)) -> "ValueError"
      [] InvalidMaxTries(ResolveMaxTries(m)) -> "ValueError"
      [] GetWithData(method, data) -> "ValueError"
      [] OTHER -> "ok"

\* History of one top-level call: its arguments, the session as the call
\* found it, the nested calls of lines 204 and 206, and the time of the last
\* attempt as the test of line 199 read it when it passed.
NewHist(path, m, t) ==
    [path |-> path, max_tries |-> m, start |-> t,
     last_refresh |-> last_refresh, token |-> auth_token,
     limited |-> RateLimited(rl_count, rl_limit, rl_until, t),
     refreshes |-> 0, reissues |-> 0, refresh_ret |-> NoOutcome,
     reissue_limited |-> FALSE, args |-> NoArgs, checked |-> None]

\* session.py:88: self.timeout
DefaultTimeout == 10

\* lines 133-134: if self.timeout is None: timeout = self.timeout
ResolveTimeout(self_timeout, timeout) ==
    IF self_timeout = None THEN self_timeout ELSE timeout

\* The locals of one do_api_request() call.  code and hdr are the status and
\* the rate-limit headers of e.response when the handler of line 194 starts;
\* the handler reads the status only, so hdr is dropped once it has
\* dispatched on it.
Frame(path, m, timeout) ==
    [path |-> path, max_tries |-> m, tries |-> 0, pc |-> "pre", code |-> 0,
     hdr |-> NoHeaders, timeout |-> ResolveTimeout(DefaultTimeout, timeout)]

Top(c) == stack[c][Len(stack[c])]
Active(c) == stack[c] # <<>>

SetTop(c, f) ==
    [stack EXCEPT ![c] = [@ EXCEPT ![Len(@)] = f]]

\* The top frame of c ends with outcome r: a nested call hands it to its
\* caller's frame, a top-level call to the caller of the session.
Finish(c, r) ==
    /\ stack' = [stack EXCEPT ![c] = SubSeq(@, 1, Len(@) - 1)]
    /\ IF Len(stack[c]) = 1
       THEN /\ result' = [result EXCEPT ![c] = r]
            /\ ret' = ret
       ELSE /\ ret' = [ret EXCEPT ![c] = r]
            /\ result' = result

\* A header whose text is not a number.
NaN == -2

\* _try_int, protocol.py:54-58: int(str), None when str is not a number.
TryInt(str) == IF str = NaN THEN None ELSE str

\* protocol.py:78-80: the three headers as update() reads them; raw holds,
\* per header, None (absent), NaN or the number its text spells.
ParseHeaders(raw) ==
    [count |-> IF raw.count # None THEN TryInt(raw.count) ELSE None,
     limit |-> IF raw.limit # None THEN TryInt(raw.limit) ELSE None,
     reset |-> IF raw.reset # None THEN TryInt(raw.reset) ELSE None]

\* Bounds of the limiter model.
MaxHdr   == 1      \* largest count or limit a header carries
MaxDelay == 2      \* largest reset delay or cool-down, in seconds
MaxClock == 2      \* seconds the clock advances in one run
MaxOps   == 2      \* update() and make_rate_limited() calls of one run

HdrVals == {None, NaN} \cup (0..MaxHdr)
ResetVals == {None, NaN} \cup (0..MaxDelay)
RawHeaders == [count : HdrVals, limit : HdrVals, reset : ResetVals]

\* No call was made on the limiter since RateLimiter.__init__.
NoLimiterCall ==
    [last |-> "init", at |-> None, raw |-> NoHeaders, ret |-> None,
     make_at |-> None, make_t |-> 0, q |-> "unread", ops |-> 0]

\* No 429 has forced the limiter yet.
NoForce == [at |-> None, call |-> 0]

\* Construction: FeedlySession.__init__, session.py:67-94, Auth.__init__,
\* session.py:23-27 and RateLimiter.__init__, protocol.py:62-65.
InitSessionVars ==
    /\ now = StartTime
    /\ rl_count = None
    /\ rl_limit = None
    /\ rl_until = None
    /\ auth_token \in {None, 0}
    /\ refresh_token \in {None, 1}
    /\ last_refresh = 0
    /\ stack = [c \in Callers |-> <<>>]
    /\ ret = [c \in Callers |-> NoOutcome]
    /\ result = [c \in Callers |-> NoOutcome]
    /\ netlog = [c \in Callers |-> <<>>]
    /\ sleeps = [c \in Callers |-> <<>>]
    /\ hist = [c \in Callers |-> NewHist("api", DefaultMaxTries, StartTime)]
    /\ calls = 0
    /\ faults = 0
    /\ forced = NoForce
    /\ lim = NoLimiterCall

\* The time that passes before a call: none, or more than the refresh
\* window (which also ends a cool-down of the limiter).
Elapsed == {0, RefreshWindow + 1}

\* lines 133-160: a call made d seconds after the session was last used.
\* The checks of lines 139-160 either raise, and the call is over, or let
\* the call reach the try block.
Call(c, url, method, data, timeout, m, d) ==
    /\ ~Active(c)
    /\ calls < MaxCalls
    /\ calls = 0 => d = 0
    /\ calls' = calls + 1
    /\ now' = now + d
    /\ LET v == Validate(auth_token, url, method, data, m)
           path == PathOf(WithSlash(url))
           mt == ResolveMaxTries(m)
       IN
       /\ IF v = "ok"
          THEN /\ stack' = [stack EXCEPT ![c] = <<Frame(path, mt, timeout)>>]
               /\ result' = [result EXCEPT ![c] = NoOutcome]
          ELSE /\ stack' = stack
               /\ result' = [result EXCEPT ![c] = Raised(v, 0)]
       /\ hist' = [hist EXCEPT ![c] =
              [NewHist(path, mt, now + d) EXCEPT
                  !.args = [url |-> url, method |-> method, data |-> data,
                            timeout |-> timeout,
                            max_tries |-> m]]]
    /\ ret' = [ret EXCEPT ![c] = NoOutcome]
    /\ netlog' = [netlog EXCEPT ![c] = <<>>]
    /\ sleeps' = [sleeps EXCEPT ![c] = <<>>]
    /\ UNCHANGED <<rl_count, rl_limit, rl_until, auth_token, refresh_token,
                   last_refresh, faults, forced, lim>>
    /\ UNCHANGED <<streamVars, dataVars>>

\* A call whose arguments pass the checks of lines 139-160: a GET of path
\* with max_tries m.
Request(c, path, m, d) ==
    Call(c, UrlOf(path), "default", "none", None, m, d)

\* lines 162-164: the check before the loop.
PreCheck(c) ==
    /\ Active(c)
    /\ Top(c).pc = "pre"
    /\ IF RateLimited(rl_count, rl_limit, rl_until, now)
       THEN Finish(c, Raised(PreemptedError(None), 0))
       ELSE /\ stack' = SetTop(c, [Top(c) EXCEPT !.pc = "loop"])
            /\ UNCHANGED <<ret, result>>
    /\ UNCHANGED <<now, rl_count, rl_limit, rl_until, auth_token,
                   refresh_token, last_refresh, netlog, sleeps, hist, calls,
                   faults, forced, lim>>
    /\ UNCHANGED <<streamVars, dataVars>>

\* lines 166-193: one pass of the while loop.
Attempt(c) ==
    /\ Active(c)
    /\ Top(c).pc = "loop"
    /\ LET f == Top(c)
           t == f.tries + 1
       IN
       IF RateLimited(rl_count, rl_limit, rl_until, now)
       THEN \* lines 167-169
            /\ Finish(c, Raised("ValueError", 0))
            /\ UNCHANGED <<now, rl_count, rl_limit, rl_until, netlog, sleeps,
                           faults>>
       ELSE \E o \in Outcomes(f.path, auth_token, faults) :
            /\ netlog' = [netlog EXCEPT ![c] = Append(@,
                 [path |-> f.path, token |-> auth_token, conn |-> o.conn,
                  status |-> o.status, body |-> o.body, issued |-> o.token,
                  hdr |-> IF RespTruthy(o) THEN o.hdr ELSE NoHeaders,
                  depth |-> Len(stack[c]), at |-> now,
                  timeout |-> f.timeout])]
            /\ faults' = IF Transient(o) THEN faults + 1 ELSE faults
            /\ IF RespTruthy(o)
               THEN /\ rl_count' = UpdateCount(rl_count, o.hdr)
                    /\ rl_limit' = UpdateLimit(rl_limit, o.hdr)
                    /\ rl_until' = UpdateUntil(rl_until, o.hdr, now)
               ELSE UNCHANGED <<rl_count, rl_limit, rl_until>>
            /\ IF Succeeded(o)
               THEN /\ Finish(c, Returned(o))
                    /\ UNCHANGED <<now, sleeps>>
               ELSE IF GiveUp(t, f.max_tries, o)
               THEN /\ IF o.conn
                       THEN Finish(c, Raised("ConnectionError", 0))
                       ELSE /\ stack' = SetTop(c, [f EXCEPT !.tries = t,
                                                  !.pc = "except",
                                                  !.code = o.status,
                                                  !.hdr = o.hdr])
                            /\ UNCHANGED <<ret, result>>
                    /\ UNCHANGED <<now, sleeps>>
               ELSE /\ sleeps' = [sleeps EXCEPT ![c] = Append(@, Backoff(t))]
                    /\ now' = now + Backoff(t)
                    /\ stack' = SetTop(c, [f EXCEPT !.tries = t])
                    /\ UNCHANGED <<ret, result>>
    /\ UNCHANGED <<auth_token, refresh_token, last_refresh, hist, calls,
                   forced, lim>>
    /\ UNCHANGED <<streamVars, dataVars>>

\* lines 200-204: the attempt is recorded and the nested call to the auth
\* endpoint begins.
StartRefresh(c) ==
    /\ last_refresh' = now
    /\ stack' = [stack EXCEPT ![c] =
           Append([@ EXCEPT ![Len(@)] = [Top(c) EXCEPT !.pc = "refreshing",
                                                      !.hdr = NoHeaders]],
                  Frame("auth", DefaultMaxTries, None))]
    /\ ret' = [ret EXCEPT ![c] = NoOutcome]
    /\ hist' = [hist EXCEPT ![c].refreshes = @ + 1]
    /\ UNCHANGED <<result, rl_count, rl_limit, rl_until, forced>>

\* lines 194-218: the handler of the HTTPError of raise_for_status().
Except(c) ==
    /\ Active(c)
    /\ Top(c).pc = "except"
    /\ LET f == Top(c) IN
       IF f.code = 401 /\ RefreshEligible(f.path, refresh_token, now, last_refresh)
       THEN StartRefresh(c)
       ELSE /\ IF f.code = 429 /\ ~RateLimited(rl_count, rl_limit, rl_until, now)
               THEN \* lines 212-213
                    /\ rl_count' = 1
                    /\ rl_limit' = 1
                    /\ rl_until' = now + CoolDown
                    /\ forced' = [at |-> now, call |-> calls]
               ELSE UNCHANGED <<rl_count, rl_limit, rl_until, forced>>
            /\ Finish(c, Raised(Classify(f.code), f.code))
            /\ UNCHANGED <<last_refresh, hist>>
    /\ UNCHANGED <<now, auth_token, refresh_token, netlog, sleeps, calls,
                   faults, lim>>
    /\ UNCHANGED <<streamVars, dataVars>>

\* The handler as threads run it: another thread can run between the test
\* of line 199 and the assignment of line 201.  This is the test; a handler
\* that does not start a refresh runs as Except.
ExceptCheck(c) ==
    /\ Active(c)
    /\ Top(c).pc = "except"
    /\ LET f == Top(c) IN
       IF f.code = 401 /\ RefreshEligible(f.path, refresh_token, now, last_refresh)
       THEN /\ stack' = SetTop(c, [f EXCEPT !.pc = "checked"])
            /\ hist' = [hist EXCEPT ![c].checked = last_refresh]
            /\ UNCHANGED <<now, rl_count, rl_limit, rl_until, auth_token,
                           refresh_token, last_refresh, ret, result, netlog,
                           sleeps, calls, faults, forced, lim>>
            /\ UNCHANGED <<streamVars, dataVars>>
       ELSE Except(c)

\* Mutant of ExceptRecord: the time of the last attempt is read again before
\* it is recorded.
ExceptRecord_Rechecks(c) ==
    /\ Active(c)
    /\ Top(c).pc = "checked"
    /\ IF now - last_refresh > RefreshWindow
       THEN StartRefresh(c)
       ELSE /\ Finish(c, Raised("UnauthorizedAPIError", Top(c).code))
            /\ UNCHANGED <<last_refresh, hist, rl_count, rl_limit, rl_until,
                           forced>>
    /\ UNCHANGED <<now, auth_token, refresh_token, netlog, sleeps, calls,
                   faults, lim>>
    /\ UNCHANGED <<streamVars, dataVars>>

\* lines 200-204 in a thread that passed the test of line 199.
ExceptRecord(c) ==
    /\ Active(c)
    /\ Top(c).pc = "checked"
    /\ StartRefresh(c)
    /\ UNCHANGED <<now, auth_token, refresh_token, netlog, sleeps, calls,
                   faults, lim>>
    /\ UNCHANGED <<streamVars, dataVars>>

\* lines 204-206: the refresh call is over.
AfterRefresh(c) ==
    /\ Active(c)
    /\ Top(c).pc = "refreshing"
    /\ ret[c] # NoOutcome
    /\ LET f == Top(c) IN
       IF HasAccessToken(ret[c])
       THEN \* lines 205-206: store the token, repeat the original call
            /\ auth_token' = StoredToken(auth_token, ret[c])
            /\ stack' = [stack EXCEPT ![c] =
                   Append([@ EXCEPT ![Len(@)] = [f EXCEPT !.pc = "retrying"]],
                          Frame(f.path, f.max_tries, f.timeout))]
            /\ ret' = [ret EXCEPT ![c] = NoOutcome]
            /\ hist' = [hist EXCEPT
                   ![c].reissues = @ + 1,
                   ![c].refresh_ret = ret[c],
                   ![c].reissue_limited =
                       RateLimited(rl_count, rl_limit, rl_until, now)]
            /\ UNCHANGED result
       ELSE \* lines 207-210: any exception falls through
            /\ Finish(c, Raised("UnauthorizedAPIError", f.code))
            /\ hist' = [hist EXCEPT ![c].refresh_ret = ret[c]]
            /\ UNCHANGED auth_token
    /\ UNCHANGED <<now, rl_count, rl_limit, rl_until, refresh_token,
                   last_refresh, netlog, sleeps, calls, faults, forced, lim>>
    /\ UNCHANGED <<streamVars, dataVars>>

\* Mutant of AfterRetry: the error of the repeated call reaches the caller.
AfterRetry_Propagates(c) ==
    /\ Active(c)
    /\ Top(c).pc = "retrying"
    /\ ret[c] # NoOutcome
    /\ Finish(c, ret[c])
    /\ UNCHANGED <<now, rl_count, rl_limit, rl_until, auth_token,
                   refresh_token, last_refresh, netlog, sleeps, hist, calls,
                   faults, forced, lim>>
    /\ UNCHANGED <<streamVars, dataVars>>

\* lines 206-210: the repeated original call is over.
AfterRetry(c) ==
    /\ Active(c)
    /\ Top(c).pc = "retrying"
    /\ ret[c] # NoOutcome
    /\ IF ret[c].kind = "return"
       THEN Finish(c, ret[c])
       ELSE Finish(c, Raised("UnauthorizedAPIError", Top(c).code))
    /\ UNCHANGED <<now, rl_count, rl_limit, rl_until, auth_token,
                   refresh_token, last_refresh, netlog, sleeps, hist, calls,
                   faults, forced, lim>>
    /\ UNCHANGED <<streamVars, dataVars>>

----------------------------------------------------------------------------
(* The RateLimiter used directly, protocol.py:61-89.                       *)

\* RateLimiter.update(response), protocol.py:77-89.
LimUpdate(raw) ==
    /\ lim.ops < MaxOps
    /\ rl_count' = UpdateCount(rl_count, ParseHeaders(raw))
    /\ rl_limit' = UpdateLimit(rl_limit, ParseHeaders(raw))
    /\ rl_until' = UpdateUntil(rl_until, ParseHeaders(raw), now)
    /\ lim' = [lim EXCEPT !.last = "update", !.at = now, !.raw = raw,
                          !.ret = UpdateReturn(ParseHeaders(raw)),
                          !.q = "unread", !.ops = @ + 1]
    /\ UNCHANGED <<now, auth_token, refresh_token, last_refresh, stack, ret,
                   result, netlog, sleeps, hist, calls, faults, forced>>
    /\ UNCHANGED <<streamVars, dataVars>>

\* RateLimiter.make_rate_limited(t), protocol.py:72-75.
LimMake(t) ==
    /\ lim.ops < MaxOps
    /\ rl_count' = 1
    /\ rl_limit' = 1
    /\ rl_until' = now + t
    /\ lim' = [lim EXCEPT !.last = "make", !.at = now, !.raw = NoHeaders,
                          !.ret = None, !.make_at = now, !.make_t = t,
                          !.q = "unread", !.ops = @ + 1]
    /\ UNCHANGED <<now, auth_token, refresh_token, last_refresh, stack, ret,
                   result, netlog, sleeps, hist, calls, faults, forced>>
    /\ UNCHANGED <<streamVars, dataVars>>

\* The rate_limited property is read, protocol.py:67-70.
LimQuery ==
    /\ lim' = [lim EXCEPT !.q = QueryResult(rl_count, rl_limit, rl_until, now)]
    /\ UNCHANGED <<now, rl_count, rl_limit, rl_until, auth_token,
                   refresh_token, last_refresh, stack, ret, result, netlog,
                   sleeps, hist, calls, faults, forced>>
    /\ UNCHANGED <<streamVars, dataVars>>

\* time.time() advances by one second.
LimTick ==
    /\ now < StartTime + MaxClock
    /\ now' = now + 1
    /\ lim' = [lim EXCEPT !.q = "unread"]
    /\ UNCHANGED <<rl_count, rl_limit, rl_until, auth_token, refresh_token,
                   last_refresh, stack, ret, result, netlog, sleeps, hist,
                   calls, faults, forced>>
    /\ UNCHANGED <<streamVars, dataVars>>

----------------------------------------------------------------------------
(* Stream ids, stream.py:8-101.  A Python string is a sequence of tokens:  *)
(* the separator "/" or a piece of text without one.                       *)

Slash == "/"

\* Token-level str.startswith(prefix) for the two prefixes the code tests:
\* the pieces of text that begin with the prefix.
PrefixedBy(prefix) ==
    IF prefix = "user" THEN {"user", "users"}
    ELSE IF prefix = "enterprise" THEN {"enterprise", "enterprises"}
    ELSE {prefix}

StartsWith(str, prefix) == Len(str) >= 1 /\ str[1] \in PrefixedBy(prefix)

RECURSIVE Join(_)
\* '/'.join(parts)
Join(parts) ==
    IF parts = <<>> THEN <<>>
    ELSE IF Len(parts) = 1 THEN parts[1]
    ELSE parts[1] \o <<Slash>> \o Join(Tail(parts))

RECURSIVE Split(_)
\* str.split('/')
Split(str) ==
    IF \A i \in 1..Len(str) : str[i] # Slash
    THEN <<str>>
    ELSE LET i == CHOOSE k \in 1..Len(str) :
                      /\ str[k] = Slash
                      /\ \A j \in 1..(k - 1) : str[j] # Slash
         IN <<SubSeq(str, 1, i - 1)>> \o Split(SubSeq(str, i + 1, Len(str)))

\* parts[k:] for a 0-based k
From(parts, k) == SubSeq(parts, k + 1, Len(parts))

\* stream.py:8-10
STREAM_SOURCE_USER       == <<"user">>
STREAM_SOURCE_ENTERPRISE == <<"enterprise">>
STREAM_SOURCE_UNKNOWN    == <<"unk">>

\* A constructor call that raised.
NoStreamId(exc) ==
    [ok |-> FALSE, exc |-> exc, id |-> <<>>, source |-> <<>>,
     source_id |-> <<>>, type |-> <<>>, content_id |-> <<>>]

\* StreamIdBase.__init__, lines 17-29.
StreamIdBase(id_, source, source_id, type_, content_id) ==
    [ok |-> TRUE, exc |-> "", id |-> id_, source |-> source,
     source_id |-> source_id, type |-> type_, content_id |-> content_id]

\* An optional argument: given or left out (None).
Given(v) == [given |-> TRUE, val |-> v]
Omitted  == [given |-> FALSE, val |-> <<>>]

\* lines 67-70 and 93-96: the defaults of id_ and parts.
ResolveId(id_, parts) == IF id_.given THEN id_.val ELSE Join(parts.val)
ResolveParts(id_, parts) ==
    IF parts.given THEN parts.val ELSE Split(ResolveId(id_, parts))

\* line 75: '/'.join(parts[3:])
UserContentId(parts) == Join(From(parts, 3))

\* UserStreamId.__init__, lines 66-75.  '/'.join(None) and str + id (the
\* builtin, line 73) raise TypeError; parts[1] and parts[2] IndexError.
UserStreamId(id_, parts) ==
    IF ~id_.given /\ ~parts.given THEN NoStreamId("TypeError")
    ELSE LET i == ResolveId(id_, parts)
             p == ResolveParts(id_, parts)
         IN
         IF ~StartsWith(i, "user") THEN NoStreamId("TypeError")
         ELSE IF Len(p) < 3 THEN NoStreamId("IndexError")
         ELSE StreamIdBase(i, STREAM_SOURCE_USER, p[2], p[3], UserContentId(p))

\* EnterpriseStreamId.__init__, lines 85-101.
EnterpriseStreamId(id_, parts) ==
    IF ~id_.given /\ ~parts.given THEN NoStreamId("TypeError")
    ELSE LET i == ResolveId(id_, parts)
             p == ResolveParts(id_, parts)
         IN
         IF ~StartsWith(i, "enterprise") THEN NoStreamId("TypeError")
         ELSE IF Len(p) < 4 THEN NoStreamId("IndexError")
         ELSE StreamIdBase(i, STREAM_SOURCE_ENTERPRISE, p[2], p[3], p[4])

\* StreamIdBase.from_string, lines 39-50, called with nargs positional
\* arguments.  It is a staticmethod declared with (self, id_): a call that
\* passes the id alone raises TypeError; so does line 50, which leaves out
\* content_id.
FromString(nargs, id_) ==
    IF nargs < 2 THEN NoStreamId("TypeError")
    ELSE IF Len(Split(id_)) < 4 THEN NoStreamId("ValueError")
    ELSE IF StartsWith(id_, "user")
         THEN UserStreamId(Given(id_), Given(Split(id_)))
    ELSE IF StartsWith(id_, "enterprise")
         THEN EnterpriseStreamId(Given(id_), Omitted)
    ELSE NoStreamId("TypeError")

\* Bound: the longest parts list passed to a constructor.
MaxParts == 5

\* The parts callers pass: a source, a source id, a type, and content ids
\* (one of them holds a '/').
SourceTexts  == {<<"user">>, <<"users">>, <<"enterprise">>, <<"unk">>}
ContentTexts == {<<"gaming">>, <<"a", Slash, "b">>}
PartLists ==
    UNION {{p \in [1..k -> SourceTexts \cup {<<"abcd">>, <<"tag">>}
                              \cup ContentTexts] :
               /\ p[1] \in SourceTexts
               /\ p[2] = <<"abcd">>
               /\ p[3] = <<"tag">>
               /\ \A i \in 4..k : p[i] \in ContentTexts} : k \in 3..MaxParts}
IdStrings == {Join(p) : p \in PartLists}

\* The constructor calls: UserStreamId or EnterpriseStreamId with id_, with
\* parts, or with both.
CtorArgs ==
    {[kind |-> k, id_ |-> i, parts |-> p] :
        k \in {"user", "enterprise"},
        i \in {Omitted} \cup {Given(x) : x \in IdStrings},
        p \in {Omitted} \cup {Given(x) : x \in PartLists}}

\* cls(id_, parts)
Construct(kind, id_, parts) ==
    IF kind = "user" THEN UserStreamId(id_, parts)
                     ELSE EnterpriseStreamId(id_, parts)

\* No stream id in use.
NoSid ==
    [stage |-> "idle", args |-> [kind |-> "user", id_ |-> Omitted,
                                 parts |-> Omitted],
     obj |-> NoStreamId(""), how |-> "", parsed |-> NoStreamId(""),
     q |-> ""]

\* The methods that read a stream id, lines 31-37, 52-56, 77-81: the two
\* properties, is_category, is_tag, and __repr__, which reads self.id_, an
\* attribute no stream id has.
Readers == {"is_user_stream", "is_enterprise_stream", "is_category",
            "is_tag", "repr"}
Read(obj, m) ==
    IF m = "repr" THEN "AttributeError"
    ELSE IF m = "is_user_stream" THEN
            (IF obj.source = STREAM_SOURCE_USER THEN "True" ELSE "False")
    ELSE IF m = "is_enterprise_stream" THEN
            (IF obj.source = STREAM_SOURCE_ENTERPRISE THEN "True" ELSE "False")
    ELSE IF m = "is_category" THEN
            (IF obj.type = <<"category">> THEN "True" ELSE "False")
    ELSE (IF obj.type = <<"tag">> THEN "True" ELSE "False")

\* The ways to parse an id string back: from_string called with the id,
\* from_string called with a first argument in the place of `self`, and the
\* constructor of the same class called with the id.
ParseWays == {"from_string", "from_string_self", "constructor"}
ParseBack(kind, how, id_) ==
    IF how = "from_string" THEN FromString(1, id_)
    ELSE IF how = "from_string_self" THEN FromString(2, id_)
    ELSE Construct(kind, Given(id_), Omitted)

InitSid ==
    \E a \in CtorArgs : sid = [NoSid EXCEPT !.stage = "args", !.args = a]

\* The constructor runs on the arguments.
SidConstruct ==
    /\ sid.stage = "args"
    /\ sid' = [sid EXCEPT
           !.stage = "built",
           !.obj = Construct(sid.args.kind, sid.args.id_, sid.args.parts)]
    /\ UNCHANGED <<listing, lazy, rlog, ioc>>
    /\ UNCHANGED <<streamVars, sessionVars>>

\* The id of the object built is parsed back.
SidParse(how) ==
    /\ sid.stage = "built"
    /\ sid.obj.ok
    /\ sid' = [sid EXCEPT
           !.stage = "parsed", !.how = how,
           !.parsed = ParseBack(sid.args.kind, how, sid.obj.id)]
    /\ UNCHANGED <<listing, lazy, rlog, ioc>>
    /\ UNCHANGED <<streamVars, sessionVars>>

\* A method of the object is called.
SidRead(m) ==
    /\ sid.stage \in {"built", "parsed"}
    /\ sid.obj.ok
    /\ sid' = [sid EXCEPT !.q = Read(sid.obj, m)]
    /\ UNCHANGED <<listing, lazy, rlog, ioc>>
    /\ UNCHANGED <<streamVars, sessionVars>>

----------------------------------------------------------------------------
(* IoCDownloaderABC.stream_bundles, indicators_of_compromise.py:45-61.     *)

\* Bound: the pages of one export.
MaxBundlePages == 4

\* The link header of a response, '<' url '>...': whether the url has a
\* part before its parameters (scheme://host/path?), and its parameters in
\* order, each a name and a value.
NoLink == [present |-> FALSE, prefix |-> FALSE, params |-> <<>>]
Links(c) ==
    {[present |-> TRUE, prefix |-> x, params |-> ps] :
        x \in BOOLEAN,
        ps \in {<<<<"continuation", c>>, <<"streamId", 0>>>>,
                <<<<"streamId", 0>>, <<"continuation", c>>>>,
                <<<<"streamId", 0>>>>}}

\* The service: the request with continuation c (None on the first one) is
\* answered with page c + 1, which links to the next page unless it is the
\* last of `total` pages.
BundlePage(c) == IF c = None THEN 1 ELSE c + 1
LinksOf(page, total) == IF page < total THEN Links(page) ELSE {NoLink}

\* urllib.parse.parse_qs(next_url), line 61: the text is cut at '&' and each
\* piece at its first '='; the name of the first piece holds whatever
\* precedes the parameters.
ParseQsNames(link) ==
    [i \in DOMAIN link.params |->
        IF i = 1 /\ link.prefix THEN "url?" ELSE link.params[i][1]]

\* parse_qs(next_url)["continuation"] raises KeyError without such a name.
HasContinuation(link) ==
    \E i \in DOMAIN link.params : ParseQsNames(link)[i] = "continuation"

\* Mutant of ParsedContinuation: the value of the first parameter.
ParsedContinuation_First(link) == link.params[1][2]

\* parse_qs(next_url)["continuation"][0]
ParsedContinuation(link) ==
    link.params[CHOOSE i \in DOMAIN link.params :
                    /\ ParseQsNames(link)[i] = "continuation"
                    /\ \A j \in DOMAIN link.params :
                          ParseQsNames(link)[j] = "continuation" => i <= j][2]

\* line 58: if not self.newer_than or "link" not in resp.headers
LastBundle(newer_than, link) == newer_than = None \/ ~link.present

\* No downloader in use.
NoIoc ==
    [newer_than |-> None, total |-> 1, pc |-> "idle", continuation |-> None,
     link |-> NoLink, reqs |-> <<>>, bundles |-> <<>>, exc |-> ""]

\* IoCDownloaderABC.__init__, lines 26-40, with newer_than None or a
\* datetime (1), before an export of 1..MaxBundlePages pages.
InitIoc ==
    \E nt \in {None, 1}, k \in 1..MaxBundlePages :
        ioc = [NoIoc EXCEPT !.newer_than = nt, !.total = k]

\* stream_bundles() is called and the generator started, line 46.
IocStart ==
    /\ ioc.pc = "idle"
    /\ ioc' = [ioc EXCEPT !.pc = "request", !.continuation = None]
    /\ UNCHANGED <<listing, lazy, rlog, sid>>
    /\ UNCHANGED <<streamVars, sessionVars>>

\* lines 48-57: the request, answered; the bundle is yielded.
IocRequest ==
    /\ ioc.pc = "request"
    /\ \E link \in LinksOf(BundlePage(ioc.continuation), ioc.total) :
          ioc' = [ioc EXCEPT
              !.pc = "yield",
              !.reqs = Append(@, ioc.continuation),
              !.bundles = Append(@, BundlePage(ioc.continuation)),
              !.link = link]
    /\ UNCHANGED <<listing, lazy, rlog, sid>>
    /\ UNCHANGED <<streamVars, sessionVars>>

\* line 48: make_api_request raises; the generator dies.
IocRequestRaises ==
    /\ ioc.pc = "request"
    /\ ioc' = [ioc EXCEPT !.pc = "raised", !.exc = "HTTPError",
                          !.reqs = Append(@, ioc.continuation)]
    /\ UNCHANGED <<listing, lazy, rlog, sid>>
    /\ UNCHANGED <<streamVars, sessionVars>>

\* lines 58-61: the consumer asks for the next bundle.
IocResume ==
    /\ ioc.pc = "yield"
    /\ IF LastBundle(ioc.newer_than, ioc.link)
       THEN ioc' = [ioc EXCEPT !.pc = "done"]
       ELSE IF ~HasContinuation(ioc.link)
       THEN ioc' = [ioc EXCEPT !.pc = "raised", !.exc = "KeyError"]
       ELSE ioc' = [ioc EXCEPT !.pc = "request",
                        !.continuation = ParsedContinuation(ioc.link)]
    /\ UNCHANGED <<listing, lazy, rlog, sid>>
    /\ UNCHANGED <<streamVars, sessionVars>>

----------------------------------------------------------------------------
(* LazyStreams, api_client/data.py:180-235: the user's categories.         *)

\* Bounds: items of one list, changes of the served list, list requests made
\* on one resolver, list requests that fail.
MaxList         == 2
MaxRev          == 1
MaxListRequests == 3
MaxListFailures == 2

\* FeedlyUser.user_categories, lines 293-300: parts and factory.
Parts == <<STREAM_SOURCE_USER, <<"abcd">>, <<"category">>>>

\* Token-level UUID_REGEX.match(id), line 180: the pieces of text that begin
\* with a UUID ("uuid1+" is a UUID followed by more text).
UuidTexts == {"uuid1", "uuid1+"}
UuidMatch(id) == Len(id) >= 1 /\ id[1] \in UuidTexts

\* The value of entity["label"] when the JSON has no label.
NoLabel == <<"#None">>

\* What the list endpoint can serve: items with an id under Parts and a
\* label, no id twice in one list; rev tells one served list from the next.
ContentIds == {<<"gaming">>, <<"recipes">>}
Labels     == {<<"recipes">>, <<"tech">>}
Items(rev) ==
    {[id |-> Join(Parts \o <<c>>), label |-> l, rev |-> rev] :
        c \in ContentIds, l \in Labels}
Listings(rev) ==
    {list \in UNION {[1..k -> Items(rev)] : k \in 0..MaxList} :
        \A i, j \in DOMAIN list : list[i].id = list[j].id => i = j}

\* How the service changes the list: every item is revised, and the first
\* one may be deleted.
Revised(list, rev) == [i \in DOMAIN list |-> [list[i] EXCEPT !.rev = rev]]
Changes(list, rev) ==
    {Revised(list, rev)} \cup
    (IF list = <<>> THEN {} ELSE {Revised(Tail(list), rev)})

\* A cached_property: not computed yet, or the value computed once.
NotCached == [cached |-> FALSE, val |-> <<>>]
Cached(v) == [cached |-> TRUE, val |-> v]

\* LazyStreams.__init__, lines 184-192.
NewLazyStreams ==
    [streams |-> NotCached, id2stream |-> NotCached,
     name2stream |-> NotCached, populated |-> FALSE]

\* What client.do_api_request(endpoint) ends with: the served list, or an
\* exception (session.py:169 raises ValueError, the others are HTTPErrors).
ListOutcomes ==
    {[ok |-> TRUE, exc |-> ""], [ok |-> FALSE, exc |-> "ValueError"],
     [ok |-> FALSE, exc |-> "HTTPError"]}

ListOk == [ok |-> TRUE, exc |-> ""]

\* The outcomes to consider for the next list request: one is enough when
\* no request will be made.
NextOutcomes(needed) == IF needed THEN ListOutcomes ELSE {ListOk}

\* Streamable.stream_id.content_id of a UserCategory, lines 135-138.
ContentIdOf(stream) ==
    UserStreamId(Given(stream.id), Given(Split(stream.id))).content_id

\* A dict comprehension over streams: a later item replaces an earlier one
\* with the same key.
LastWith(streams, keys, k) ==
    streams[CHOOSE i \in DOMAIN streams :
                /\ keys[i] = k
                /\ \A j \in DOMAIN streams : keys[j] = k => j <= i]

LabelOf(stream) == stream.label

DictById(streams) ==
    LET keys == [i \in DOMAIN streams |-> ContentIdOf(streams[i])]
    IN [k \in {keys[i] : i \in DOMAIN streams} |->
           LastWith(streams, keys, k)]

DictByLabel(streams) ==
    LET keys == [i \in DOMAIN streams |-> LabelOf(streams[i])]
    IN [k \in {keys[i] : i \in DOMAIN streams} |->
           LastWith(streams, keys, k)]

\* Mutant of Streams: a plain property, computed at every access.
Streams_Property(lz, o, served) ==
    IF o.ok
    THEN [lz |-> [lz EXCEPT !.populated = TRUE, !.streams = Cached(served)],
          exc |-> "", net |-> 1, oks |-> 1]
    ELSE [lz |-> [lz EXCEPT !.populated = TRUE],
          exc |-> o.exc, net |-> 1, oks |-> 0]

\* LazyStreams.streams, lines 194-197, read when the next list request would
\* end with o and the endpoint serves `served`: the object afterwards, the
\* exception raised if any, the list requests made and those that succeeded.
Streams(lz, o, served) ==
    IF lz.streams.cached
    THEN [lz |-> lz, exc |-> "", net |-> 0, oks |-> 0]
    ELSE IF o.ok
    THEN [lz |-> [lz EXCEPT !.populated = TRUE, !.streams = Cached(served)],
          exc |-> "", net |-> 1, oks |-> 1]
    ELSE [lz |-> [lz EXCEPT !.populated = TRUE],
          exc |-> o.exc, net |-> 1, oks |-> 0]

\* LazyStreams.id2stream, lines 199-201.
Id2Stream(lz, o, served) ==
    IF lz.id2stream.cached
    THEN [lz |-> lz, exc |-> "", net |-> 0, oks |-> 0]
    ELSE LET a == Streams(lz, o, served) IN
         IF a.exc # "" THEN a
         ELSE [a EXCEPT !.lz.id2stream = Cached(DictById(a.lz.streams.val))]

\* LazyStreams.name2stream, lines 203-205.
Name2Stream(lz, o, served) ==
    IF lz.name2stream.cached
    THEN [lz |-> lz, exc |-> "", net |-> 0, oks |-> 0]
    ELSE LET a == Streams(lz, o, served) IN
         IF a.exc # "" THEN a
         ELSE [a EXCEPT !.lz.name2stream =
                            Cached(DictByLabel(a.lz.streams.val))]

\* The outcome of a call on the resolver: the object afterwards, the value
\* returned or the exception raised (why: "lookup" for the ValueError of a
\* failed lookup, whose message lists `avail`; "request" for an exception of
\* the list request), and the list requests made.
NoStream == [id |-> <<>>, label |-> NoLabel, rev |-> None]

Found(a, stream) ==
    [lz |-> a.lz, kind |-> "return", val |-> stream, exc |-> "",
     why |-> "", avail |-> {}, net |-> a.net, oks |-> a.oks]

Failed(a, exc, why, avail) ==
    [lz |-> a.lz, kind |-> "raise", val |-> NoStream, exc |-> exc,
     why |-> why, avail |-> avail, net |-> a.net, oks |-> a.oks]

NoAccess(lz) == [lz |-> lz, exc |-> "", net |-> 0, oks |-> 0]

\* Mutant of MakeStreamFromId: the id is the uuid alone.
MakeStreamFromId_Bare(uuid) ==
    [id |-> uuid, label |-> NoLabel, rev |-> None]

\* LazyStreams.make_stream_from_id, lines 234-235.
MakeStreamFromId(uuid) ==
    [id |-> Join(Parts \o <<uuid>>), label |-> NoLabel, rev |-> None]

\* LazyStreams.get_from_name, lines 219-223.
GetFromName(lz, name, o, served) ==
    LET a == Name2Stream(lz, o, served) IN
    IF a.exc # "" THEN Failed(a, a.exc, "request", {})
    ELSE IF name \in DOMAIN a.lz.name2stream.val
    THEN Found(a, a.lz.name2stream.val[name])
    ELSE Failed(a, "ValueError", "lookup", DOMAIN a.lz.name2stream.val)

\* LazyStreams.get_from_id, lines 225-232.
GetFromId(lz, id, o, served) ==
    IF UuidMatch(id) THEN Found(NoAccess(lz), MakeStreamFromId(id))
    ELSE LET a == Id2Stream(lz, o, served) IN
         IF a.exc # "" THEN Failed(a, a.exc, "request", {})
         ELSE IF id \in DOMAIN a.lz.id2stream.val
         THEN Found(a, a.lz.id2stream.val[id])
         ELSE Failed(a, "ValueError", "lookup", DOMAIN a.lz.id2stream.val)

\* Mutant of GetStr: the label map is tried first.
GetStr_LabelFirst(lz, name_or_id, o1, o2, served) ==
    LET r1 == GetFromName(lz, name_or_id, o1, served) IN
    IF r1.kind = "raise" /\ r1.exc = "ValueError"
    THEN LET r2 == GetFromId(r1.lz, name_or_id, o2, served) IN
         [r2 EXCEPT !.net = r1.net + r2.net, !.oks = r1.oks + r2.oks]
    ELSE r1

\* LazyStreams.get with a str, lines 214-217: any ValueError of get_from_id,
\* that of a list request included, leads to get_from_name.
GetStr(lz, name_or_id, o1, o2, served) ==
    LET r1 == GetFromId(lz, name_or_id, o1, served) IN
    IF r1.kind = "raise" /\ r1.exc = "ValueError"
    THEN LET r2 == GetFromName(r1.lz, name_or_id, o2, served) IN
         [r2 EXCEPT !.net = r1.net + r2.net, !.oks = r1.oks + r2.oks]
    ELSE r1

\* LazyStreams.get with a StreamIdBase, lines 208-212.  The message of the
\* assert formats the stream id, whose __repr__ (stream.py:52-53) reads the
\* attribute id_ that no stream id has: AttributeError.
GetStreamId(lz, stream_id) ==
    IF SubSeq(stream_id.id, 1, Len(Join(Parts))) # Join(Parts)
    THEN Failed(NoAccess(lz), "AttributeError", "assert", {})
    ELSE Found(NoAccess(lz), MakeStreamFromId(stream_id.content_id))

\* The strings and stream ids callers pass.
Names == ContentIds \cup Labels \cup {<<"uuid1">>, <<"uuid1+">>, <<"nope">>}
StreamIds ==
    {UserStreamId(Given(Join(Parts \o <<c>>)), Omitted) : c \in ContentIds}
    \cup {EnterpriseStreamId(
              Given(Join(<<STREAM_SOURCE_ENTERPRISE, <<"acme">>, <<"tag">>,
                           <<"uuid1">>>>)), Omitted)}

NoCall == [op |-> "none", arg |-> <<>>, kind |-> "none", val |-> NoStream,
           exc |-> "", why |-> "", avail |-> {}, net |-> 0, oks |-> 0]

InitDataVars ==
    /\ listing \in Listings(0)
    /\ lazy = NewLazyStreams
    /\ rlog = [net |-> 0, oks |-> 0, failed |-> 0, rev |-> 0,
               last |-> NoCall]

\* The variables of this section and of the next in a run that uses
\* neither.
IdleDataVars == InitDataVars /\ listing = <<>> /\ sid = NoSid /\ ioc = NoIoc

\* A call on the resolver ended as r: the object and the history afterwards.
Resolved(op, arg, r) ==
    /\ rlog.net + r.net <= MaxListRequests
    /\ rlog.failed + (r.net - r.oks) <= MaxListFailures
    /\ lazy' = r.lz
    /\ rlog' = [rlog EXCEPT
           !.net = @ + r.net, !.oks = @ + r.oks,
           !.failed = @ + (r.net - r.oks),
           !.last = [op |-> op, arg |-> arg, kind |-> r.kind, val |-> r.val,
                     exc |-> r.exc, why |-> r.why, avail |-> r.avail,
                     net |-> r.net, oks |-> r.oks]]
    /\ UNCHANGED <<listing, sid, ioc>>
    /\ UNCHANGED <<streamVars, sessionVars>>

\* resolver.get(name_or_id) with a str.
LazyGet(name_or_id) ==
    \E o1 \in NextOutcomes(~lazy.streams.cached) :
        \E o2 \in NextOutcomes(o1.exc = "ValueError") :
            Resolved("get", name_or_id,
                     GetStr(lazy, name_or_id, o1, o2, listing))

\* resolver.get(stream_id) with a StreamIdBase.
LazyGetStreamId(stream_id) ==
    Resolved("get_id", stream_id.id, GetStreamId(lazy, stream_id))

\* resolver.get_from_name(name)
LazyGetFromName(name) ==
    \E o \in NextOutcomes(~lazy.streams.cached) :
        Resolved("get_from_name", name, GetFromName(lazy, name, o, listing))

\* resolver.get_from_id(id)
LazyGetFromId(id) ==
    \E o \in NextOutcomes(~lazy.streams.cached) :
        Resolved("get_from_id", id, GetFromId(lazy, id, o, listing))

\* resolver.streams is read.
LazyStreamsRead ==
    \E o \in NextOutcomes(~lazy.streams.cached) :
        LET a == Streams(lazy, o, listing) IN
        Resolved("streams", <<>>,
                 IF a.exc # "" THEN Failed(a, a.exc, "request", {})
                               ELSE Found(a, NoStream))

\* resolver.refresh(): LazyStreams (lines 183-235) defines no such method
\* and no __getattr__, so the attribute lookup raises AttributeError and the
\* object is left as it was.
LazyRefresh ==
    Resolved("refresh", <<>>,
             Failed(NoAccess(lazy), "AttributeError", "attribute", {}))

\* The service: the user's categories change.
ListingChanges ==
    /\ rlog.rev < MaxRev
    /\ listing' \in Changes(listing, rlog.rev + 1)
    /\ rlog' = [rlog EXCEPT !.rev = @ + 1]
    /\ UNCHANGED <<lazy, sid, ioc>>
    /\ UNCHANGED <<streamVars, sessionVars>>

----------------------------------------------------------------------------
(* The specifications.                                                     *)

InitStream ==
    /\ InitStreamVars /\ InitSessionVars /\ auth_token = 0
    /\ refresh_token = None
    /\ IdleDataVars

NextStream ==
    \/ IterStart
    \/ OuterLoop
    \/ InnerYield
    \/ Resume
    \/ InnerExit
    \/ FetchPage
    \/ FetchRaises
    \/ FetchSkip
    \/ Abandon
    \/ Reset

SpecStream == InitStream /\ [][NextStream]_vars

\* One StreamBase object over an endless source, iterated while the
\* consumer assigns its id and its options.
InitOptions == InitStream /\ uniform /\ count = MaxPageLen

NextOptions ==
    \/ NextStream
    \/ SetOptions
    \/ SetId

SpecOptions == InitOptions /\ [][NextOptions]_vars

\* One RateLimiter used directly: update(), make_rate_limited() and
\* rate_limited in any order, as time passes.
InitLimiter ==
    /\ InitSessionVars /\ auth_token = 0 /\ refresh_token = None
    /\ InitStreamVars /\ max_count = 0 /\ uniform /\ count = 1
    /\ IdleDataVars

NextLimiter ==
    \/ \E raw \in RawHeaders : LimUpdate(raw)
    \/ \E t \in 1..MaxDelay : LimMake(t)
    \/ LimQuery
    \/ LimTick

SpecLimiter == InitLimiter /\ [][NextLimiter]_vars

\* One FeedlySession, with or without a token and with no refresh token,
\* called with any arguments.
InitValidate ==
    /\ InitSessionVars /\ refresh_token = None
    /\ InitStreamVars /\ max_count = 0 /\ uniform /\ count = 1
    /\ IdleDataVars

\* timeout as callers pass it: left out, or a number of seconds.
Timeouts == {None, 5}

\* max_tries as callers pass it: left out, in range, 0, negative, above 10.
TriesArgs == {None, 1, 0, 0 - 2, 11}

\* Bound: calls of one run of SpecValidate.
MaxArgCalls == 1

\* do_api_request called with any arguments, lines 118-160.
ArgCall(c, url, method, data, timeout, m) ==
    calls < MaxArgCalls /\ Call(c, url, method, data, timeout, m, 0)

NextValidate ==
    \/ \E url \in Urls, method \in Methods, data \in Bodies,
          timeout \in Timeouts, m \in TriesArgs :
          ArgCall("c1", url, method, data, timeout, m)
    \/ PreCheck("c1")
    \/ Attempt("c1")
    \/ Except("c1")

SpecValidate == InitValidate /\ [][NextValidate]_vars

InitSession ==
    /\ InitSessionVars /\ auth_token = 0
    /\ InitStreamVars /\ max_count = 0 /\ uniform /\ count = 1
    /\ IdleDataVars

NextSession ==
    \/ \E path \in {"api", "auth"}, m \in 1..MaxTriesArg, d \in Elapsed :
          Request("c1", path, m, d)
    \/ PreCheck("c1")
    \/ Attempt("c1")
    \/ Except("c1")
    \/ AfterRefresh("c1")
    \/ AfterRetry("c1")

SpecSession == InitSession /\ [][NextSession]_vars

\* Two threads calling do_api_request on one session with a refresh token.
InitConcurrent ==
    /\ InitSession
    /\ refresh_token # None

\* The server of this run: it answers every request, and its answers carry
\* no rate-limit headers.
PlainAnswers(c) ==
    /\ faults = 0
    /\ \A i \in 1..Len(stack[c]) : stack[c][i].hdr = NoHeaders
    /\ \A i \in 1..Len(netlog[c]) : netlog[c][i].hdr = NoHeaders

NextConcurrent ==
    \E c \in Callers :
        \/ \E path \in {"api", "auth"} :
              Request(c, path, DefaultMaxTries, 0)
        \/ PreCheck(c)
        \/ Attempt(c) /\ PlainAnswers(c)'
        \/ ExceptCheck(c)
        \/ ExceptRecord(c)
        \/ AfterRefresh(c)
        \/ AfterRetry(c)

SpecConcurrent == InitConcurrent /\ [][NextConcurrent]_vars

\* One LazyStreams object used in any way while the served list changes.
InitResolver ==
    /\ InitDataVars /\ sid = NoSid /\ ioc = NoIoc
    /\ InitSessionVars /\ auth_token = 0 /\ refresh_token = None
    /\ InitStreamVars /\ max_count = 0 /\ uniform /\ count = 1

NextResolver ==
    \/ \E s \in Names : LazyGet(s)
    \/ \E stream_id \in StreamIds : LazyGetStreamId(stream_id)
    \/ \E s \in Names : LazyGetFromName(s)
    \/ \E s \in Names : LazyGetFromId(s)
    \/ LazyStreamsRead
    \/ LazyRefresh
    \/ ListingChanges

SpecResolver == InitResolver /\ [][NextResolver]_vars

\* One stream id: constructed, read, parsed back.
InitStreamId ==
    /\ InitSid
    /\ InitDataVars /\ listing = <<>> /\ ioc = NoIoc
    /\ InitSessionVars /\ auth_token = 0 /\ refresh_token = None
    /\ InitStreamVars /\ max_count = 0 /\ uniform /\ count = 1

NextStreamId ==
    \/ SidConstruct
    \/ \E how \in ParseWays : SidParse(how)
    \/ \E m \in Readers : SidRead(m)

SpecStreamId == InitStreamId /\ [][NextStreamId]_vars

\* One downloader whose stream_bundles() is consumed to its end.
InitBundles ==
    /\ InitIoc
    /\ InitDataVars /\ listing = <<>> /\ sid = NoSid
    /\ InitSessionVars /\ auth_token = 0 /\ refresh_token = None
    /\ InitStreamVars /\ max_count = 0 /\ uniform /\ count = 1

NextBundles ==
    \/ IocStart
    \/ IocRequest
    \/ IocRequestRaises
    \/ IocResume

SpecBundles == InitBundles /\ [][NextBundles]_vars

----------------------------------------------------------------------------
(* Properties of the stream cursor, checked under SpecStream.              *)

RECURSIVE ConcatItems(_, _)
\* The items of pages[i..], in server order; a page without the items
\* property has none.
ConcatItems(ps, i) ==
    IF i > Len(ps) THEN <<>>
    ELSE (IF ps[i].has THEN ps[i].items ELSE <<>>) \o ConcatItems(ps, i + 1)

AllItems == ConcatItems(pages, 1)
Total == Len(AllItems)
Ceil(a, b) == (a + b - 1) \div b
Range(f) == {f[i] : i \in DOMAIN f}

Running == spc \in {"outer", "inner", "yield", "fetch"}
FreshDone == spc = "done" /\ origin = "fresh"

\* The traversal has nothing left to do: the cap is reached, or the last
\* response carried no continuation and the buffer is drained.
EndCond ==
    Len(yielded) = max_count \/ (continuation = None /\ buffer = <<>>)

\* C3: the items one traversal of a fresh cursor yields are, in order, the
\* first min(maxCount, total) items of the pages' item lists concatenated in
\* server order.
C3_ServerOrder ==
    (FreshDone /\ ~uniform) =>
        yielded = SubSeq(AllItems, 1, Min(max_count, Total))

\* C4: at every point of a traversal at most maxCount items have been
\* yielded; a traversal that has ended has reached maxCount or has received a
\* response without continuation and drained the buffer; and from the moment
\* either holds the traversal yields nothing more and requests nothing more.
C4_CapAndEnd ==
    /\ [](Len(yielded) <= max_count)
    /\ [](spc = "done" => EndCond)
    /\ [][(Running /\ EndCond) =>
            (yielded' = yielded /\ requests' = requests)]_vars

\* C4 witness: a traversal ended by the cap in the middle of a page, with a
\* further page on the server.
C4_Witness ==
    /\ spc = "done"
    /\ max_count > 0
    /\ Len(yielded) = max_count
    /\ buffer # <<>>
    /\ continuation # None

\* C5: over a source that returns count items and a continuation on every
\* page, a traversal of a fresh cursor issues exactly ceil(maxCount / count)
\* page requests, each one with the buffer empty and fewer than maxCount
\* items yielded.
C5_MinimalRequests ==
    /\ []((FreshDone /\ uniform) =>
            Len(requests) = Ceil(max_count, count))
    /\ [][(uniform /\ origin = "fresh" /\ Len(requests') > Len(requests)) =>
            (buffer = <<>> /\ Len(yielded) < max_count)]_vars

\* C5 witness: maxCount 3 with pages of 2 ends after two requests.
C5_Witness ==
    /\ FreshDone
    /\ uniform
    /\ max_count = 3
    /\ count = 2
    /\ Len(requests) = 2
    /\ Len(yielded) = 3

\* C6: when the source holds fewer than maxCount items, a traversal of a
\* fresh cursor yields every item of every page exactly once, issues no
\* request after the first response without continuation, and ends with
\* the buffer drained.
C6_YieldsAll ==
    /\ []((FreshDone /\ ~uniform /\ Total < max_count) =>
            /\ Range(yielded) = Range(AllItems)
            /\ Len(yielded) = Total
            /\ buffer = <<>>
            /\ Len(requests) = Len(pages))
    /\ [][(~uniform /\ origin = "fresh" /\ Running /\ Total < max_count
           /\ continuation = None) => requests' = requests]_vars

\* C6 witness: three items on two pages, maxCount 4.
C6_Witness ==
    /\ FreshDone
    /\ ~uniform
    /\ Len(pages) = 2
    /\ Total = 3
    /\ max_count = 4
    /\ Len(yielded) = 3

RECURSIVE Traverse(_, _, _, _, _)
\* __iter__ as a function, stream.py:149-165: what a traversal that starts
\* with continuation c and buffer b yields and requests (k items yielded so
\* far).
Traverse(c, b, k, out, rq) ==
    IF k < max_count /\ b # <<>>
    THEN Traverse(c, PopRest(b), k + 1, Append(out, PopItem(b)), rq)
    ELSE IF b = <<>> /\ ShouldFetch(c, k, max_count)
    THEN Traverse(RespContinuation(PageIndex(c)),
                  BufferAfter(b, PageIndex(c)), k, out,
                  Append(rq, ContinuationParam(c)))
    ELSE [yielded |-> out, requests |-> rq]

\* A freshly constructed cursor, stream.py:134-135, consumed fully.
FreshTraversal == Traverse(EmptyStr, <<>>, 0, <<>>, <<>>)

\* C7: after reset(), consuming the cursor fully yields the same items and
\* issues the same page requests as a freshly constructed cursor.
C7_ResetLikeFresh ==
    (spc = "done" /\ origin = "reset") =>
        /\ yielded = FreshTraversal.yielded
        /\ requests = FreshTraversal.requests

\* The page the last request of this iteration was answered with has no
\* items property.
LastPage == PageIndex(requests[Len(requests)])
AfterItemless ==
    /\ spc \in {"outer", "inner", "fetch"}
    /\ requests # <<>>
    /\ ~uniform
    /\ ~pages[LastPage].has

\* The step is a page request answered by a page without the items
\* property.
ItemlessStep ==
    /\ spc = "fetch"
    /\ spc' = "outer"
    /\ Len(requests') = Len(requests) + 1
    /\ ~uniform
    /\ ~pages[PageIndex(continuation)].has

\* C28: a response without the items property adds nothing to the buffer,
\* which is empty, so that no item is yielded for the page and none of an
\* earlier page again; the continuation is that of the response; when it is
\* absent the traversal ends with no further request, and when it is
\* present the loop goes on and the next request carries it.
C28_ItemlessPage ==
    /\ [][ItemlessStep =>
            LET p == PageIndex(continuation) IN
            /\ buffer' = <<>>
            /\ yielded' = yielded
            /\ n' = n
            /\ continuation' = (IF p < Len(pages) THEN p ELSE None)]_vars
    /\ [][(AfterItemless /\ spc = "outer") =>
            spc' = (IF continuation = None THEN "done" ELSE "inner")]_vars
    /\ [][(AfterItemless /\ Len(requests') = Len(requests) + 1) =>
            /\ continuation = LastPage
            /\ requests'[Len(requests')] = LastPage
            /\ yielded' = yielded]_vars

\* C28 witness: a fresh traversal of two pages, the first without the items
\* property, ended after two requests with the items of the second page.
C28_Witness ==
    /\ spc = "done"
    /\ origin = "fresh"
    /\ ~uniform
    /\ Len(pages) = 2
    /\ ~pages[1].has
    /\ pages[2].has
    /\ requests = <<EmptyStr, 1>>
    /\ Len(yielded) = Len(pages[2].items)
    /\ Len(yielded) = 2
    /\ \A i \in 1..Len(yielded) : yielded[i] \in Range(pages[2].items)

----------------------------------------------------------------------------
(* Properties of do_api_request, checked under SpecSession, whose only     *)
(* caller is c1.                                                           *)

Log == netlog["c1"]
Hist == hist["c1"]
Res == result["c1"]
Slept == sleeps["c1"]
Finished == ~Active("c1") /\ Res # NoOutcome

Is2xx(e) == ~e.conn /\ 200 <= e.status /\ e.status < 300
Is4xx(e) == ~e.conn /\ 400 <= e.status /\ e.status < 500

\* The attempts of the original request: the entries logged by the
\* top-level frame, which come first in the log.
OrigAttempts == {i \in 1..Len(Log) : Log[i].depth = 1}
\* The attempts of the request repeated after a refresh.
ReissueAttempts ==
    {i \in 1..Len(Log) : Log[i].depth = 2 /\ Log[i].path = Hist.path}
RefreshAttempts ==
    {i \in 1..Len(Log) : Log[i].depth = 2 /\ Log[i].path = "auth"}

\* A refresh was eligible when the response logged as e was handled.
EligibleAt(e) ==
    /\ Hist.path # "auth"
    /\ refresh_token # None
    /\ e.at - Hist.last_refresh > RefreshWindow

\* C1: with max_tries >= 2, a call is not over after fewer than max_tries
\* attempts that were all answered 500; and a call whose first k < max_tries
\* attempts were answered 500 and whose attempt k+1 was answered 2xx has
\* returned that response, having slept 1, 2, ..., 2^(k-1) seconds.
C1_Retry500 ==
    (Finished /\ Hist.max_tries >= 2 /\ Len(Log) >= 1) =>
        /\ ~(/\ Len(Log) < Hist.max_tries
             /\ \A i \in 1..Len(Log) : ~Log[i].conn /\ Log[i].status = 500)
        /\ (/\ Len(Log) <= Hist.max_tries
            /\ Is2xx(Log[Len(Log)])
            /\ \A i \in 1..(Len(Log) - 1) :
                  ~Log[i].conn /\ Log[i].status = 500)
           => /\ Res.kind = "return"
              /\ Res.val = Parsed(Log[Len(Log)])
              /\ Slept = [i \in 1..(Len(Log) - 1) |-> 2 ^ (i - 1)]

\* C2: when the first attempt of a call is answered with a 4xx status (for
\* 401: with no refresh eligible), the call makes no second attempt and no
\* sleep, and it ends raising the failure of that status, BadRequest for
\* 400.
C2_NoRetry4xx ==
    (/\ Len(Log) >= 1
     /\ Is4xx(Log[1])
     /\ ~(Log[1].status = 401 /\ EligibleAt(Log[1])))
    => /\ Len(Log) = 1
       /\ Slept = <<>>
       /\ Finished =>
            /\ Res.kind = "raise"
            /\ Res.status = Log[1].status
            /\ Res.exc = (CASE Log[1].status = 400 -> "BadRequestAPIError"
                            [] Log[1].status = 401 -> "UnauthorizedAPIError"
                            [] Log[1].status = 429 -> "RateLimitedAPIError"
                            [] OTHER -> "HTTPError")

\* C2 witness: a 401 within the refresh window, with max_tries 3, ended
\* after one attempt.
C2_Witness ==
    /\ Finished
    /\ Hist.max_tries = 3
    /\ Hist.path = "api"
    /\ refresh_token # None
    /\ Len(Log) = 1
    /\ Log[1].status = 401
    /\ Res.exc = "UnauthorizedAPIError"

\* C8: a call that finds the limiter limited makes no network call and
\* raises RateLimitedAPIError.
C8_PreemptedRateLimited ==
    (Finished /\ Hist.limited) =>
        /\ Log = <<>>
        /\ Res.kind = "raise"
        /\ Res.exc = "RateLimitedAPIError"

\* The original request ended on a 401 with a refresh eligible.
Refreshable401 ==
    /\ OrigAttempts # {}
    /\ LET e == Log[Cardinality(OrigAttempts)] IN
          ~e.conn /\ e.status = 401 /\ EligibleAt(e)

RefreshReturnedToken ==
    Hist.refresh_ret.kind = "return" /\ Hist.refresh_ret.val = "token"

\* C9 as stated: a call whose original request is answered 401 with a
\* refresh eligible, and whose refresh call returns an access token, stores
\* the token, sends the original request again under the new token, and
\* returns a 2xx answer to it.
C9_AsStated ==
    (Finished /\ Refreshable401 /\ RefreshReturnedToken) =>
        /\ Hist.refreshes = 1
        /\ auth_token = Hist.refresh_ret.token
        /\ ReissueAttempts # {}
        /\ \A i \in ReissueAttempts : Log[i].token = Hist.refresh_ret.token
        /\ Is2xx(Log[Len(Log)]) =>
             (Res.kind = "return" /\ Res.val = Parsed(Log[Len(Log)]))

\* C9: a call whose original request is answered 401 with a refresh
\* eligible makes exactly one refresh call, to the auth endpoint; when that
\* call returns an access token, the token is stored as the bearer token and
\* the original call is repeated exactly once; unless the limiter reports
\* limited once the refresh call is over, the repeated request reaches the
\* network, every attempt of it carries the new token, and a 2xx answer to
\* it is what the call returns.  When the limiter does report limited, the
\* repeated request is never sent and the call raises Unauthorized.
C9_RefreshAndRetry ==
    (Finished /\ Refreshable401) =>
        /\ Hist.refreshes = 1
        /\ RefreshAttempts # {}
        /\ RefreshReturnedToken =>
             /\ auth_token = Hist.refresh_ret.token
             /\ auth_token # Hist.token
             /\ Hist.reissues = 1
             /\ \A i \in ReissueAttempts : Log[i].token = Hist.refresh_ret.token
             /\ ~Hist.reissue_limited =>
                  /\ ReissueAttempts # {}
                  /\ Is2xx(Log[Len(Log)]) =>
                       /\ Res.kind = "return"
                       /\ Res.val = Parsed(Log[Len(Log)])
             /\ Hist.reissue_limited =>
                  /\ ReissueAttempts = {}
                  /\ Res.kind = "raise"
                  /\ Res.exc = "UnauthorizedAPIError"

\* C9 witness: 401, a refresh that returns a token, and the repeated
\* request answered 200 under the new token.
C9_Witness ==
    /\ Finished
    /\ Refreshable401
    /\ RefreshReturnedToken
    /\ Len(Log) = 3
    /\ Log[3].path = "api"
    /\ Log[3].token = auth_token
    /\ Log[3].token # Log[1].token
    /\ ~Hist.reissue_limited
    /\ Res.kind = "return"

RefreshFailed ==
    /\ Hist.refreshes >= 1
    /\ Hist.refresh_ret # NoOutcome
    /\ ~RefreshReturnedToken

\* C10: when the refresh call fails, the call raises Unauthorized for the
\* original 401, the stored bearer token is the one the call started with,
\* and the original request is not issued again.
C10_RefreshFailure ==
    RefreshFailed =>
        /\ Finished
        /\ Res.kind = "raise"
        /\ Res.exc = "UnauthorizedAPIError"
        /\ Res.status = 401
        /\ auth_token = Hist.token
        /\ Hist.reissues = 0
        /\ ReissueAttempts = {}

\* C10 witness: the refresh call gave up on connection errors.
C10_Witness ==
    /\ Finished
    /\ RefreshFailed
    /\ Hist.refresh_ret.kind = "raise"
    /\ Hist.refresh_ret.exc = "ConnectionError"
    /\ Cardinality(RefreshAttempts) = DefaultMaxTries

\* A frame of c1 is about to handle a 429 with the limiter not limited.
Handling429 ==
    /\ Active("c1")
    /\ Top("c1").pc = "except"
    /\ Top("c1").code = 429
    /\ ~RateLimited(rl_count, rl_limit, rl_until, now)

\* C11: handling a 429 with the limiter not limited sets count = limit = 1
\* and the reset time to now + 60 and ends the request with
\* RateLimitedAPIError; a 429 is never followed by another attempt; a call
\* whose own request was answered 429 raises RateLimitedAPIError; and every
\* later call started before the reset time makes no network call.
C11_Forced429 ==
    /\ [][Handling429 =>
            /\ rl_count' = 1
            /\ rl_limit' = 1
            /\ rl_until' = now + CoolDown
            /\ Len(stack'["c1"]) = Len(stack["c1"]) - 1
            /\ IF Len(stack["c1"]) = 1
               THEN result'["c1"].exc = "RateLimitedAPIError"
               ELSE ret'["c1"].exc = "RateLimitedAPIError"]_vars
    /\ [](\A i \in 1..Len(Log) :
            (~Log[i].conn /\ Log[i].status = 429) =>
                /\ i = Len(Log)
                /\ (Finished /\ Log[i].depth = 1) =>
                      (Res.kind = "raise" /\ Res.exc = "RateLimitedAPIError"))
    /\ []((forced # NoForce /\ calls > forced.call
            /\ Hist.start < forced.at + CoolDown) => Log = <<>>)

\* C11 witness: a call answered 429 after one retried failure, then a call
\* started before the reset time that ended without a network call.
C11_Witness ==
    /\ Finished
    /\ forced # NoForce
    /\ forced.at > StartTime
    /\ calls = forced.call + 1
    /\ Hist.start < forced.at + CoolDown
    /\ Hist.limited
    /\ Log = <<>>

\* The last attempt of the original request of the call.
LastOrig == Log[Cardinality(OrigAttempts)]

\* The original request ended on an error status.
TerminalHTTPFailure ==
    /\ Finished
    /\ OrigAttempts # {}
    /\ ~LastOrig.conn
    /\ LastOrig.status >= 400

\* C12: a call whose request ended on an error status raises the error kind
\* of that status and no other: 400 BadRequest, 401 Unauthorized (unless the
\* request repeated after a refresh returned), 429 RateLimited, 500
\* ServerError, any other status the HTTPError itself; and an error that
\* carries a status was raised for a request that ended on that status.
C12_ClassifiedByStatus ==
    /\ TerminalHTTPFailure =>
          \/ /\ Res.kind = "raise"
             /\ Res.status = LastOrig.status
             /\ Res.exc = (CASE Res.status = 400 -> "BadRequestAPIError"
                            [] Res.status = 401 -> "UnauthorizedAPIError"
                            [] Res.status = 429 -> "RateLimitedAPIError"
                            [] Res.status = 500 -> "ServerAPIError"
                            [] OTHER -> "HTTPError")
          \/ /\ Res.kind = "return"
             /\ LastOrig.status = 401
             /\ Hist.reissues = 1
    /\ (Finished /\ Res.kind = "raise" /\ Res.status # 0) =>
          TerminalHTTPFailure

\* C12 witness: a 503 on every attempt is re-raised as it is, and so is a
\* 404.
C12_Witness ==
    /\ TerminalHTTPFailure
    /\ Res.exc = "HTTPError"
    /\ \/ Res.status = 503 /\ Len(Log) = 2 /\ Hist.max_tries = 2
       \/ Res.status = 404 /\ Len(Log) = 1 /\ Hist.max_tries = 3

\* The call of c1 is in the handler of an HTTP error whose response carried
\* rate-limit headers.
ErrorWithHeaders ==
    /\ Active("c1")
    /\ Top("c1").pc = "except"
    /\ Top("c1").hdr # NoHeaders

\* C21: when an attempt was answered with an error response that carries
\* rate-limit headers, the limiter holds the values of those headers (the
\* reset delay d as now + d) by the time the error is handled.
C21_UpdatedOnError ==
    ErrorWithHeaders =>
        /\ rl_count = Top("c1").hdr.count
        /\ rl_limit = Top("c1").hdr.limit
        /\ rl_until = now + Top("c1").hdr.reset

\* Every attempt the call has made so far failed with a connection error or
\* with the retryable status 503.
AllTransient ==
    /\ Len(Log) >= 1
    /\ \A i \in 1..Len(Log) : Log[i].conn \/ Log[i].status = 503

\* C19: while every attempt of a call fails with a connection error or a
\* 503, the call goes on up to max_tries attempts, sleeping 2^(i-1) seconds
\* after attempt i < max_tries and not after the last; it ends only after
\* attempt max_tries, raising the failure of that attempt: the connection
\* error, or the HTTPError of the 503.
C19_ExhaustedRetries ==
    AllTransient =>
        /\ Len(Log) <= Hist.max_tries
        /\ Slept = [i \in 1..Min(Len(Log), Hist.max_tries - 1) |-> 2 ^ (i - 1)]
        /\ Len(Log) < Hist.max_tries => Active("c1")
        /\ Finished =>
              /\ Len(Log) = Hist.max_tries
              /\ Res.kind = "raise"
              /\ IF Log[Len(Log)].conn
                 THEN Res.exc = "ConnectionError"
                 ELSE Res.exc = "HTTPError" /\ Res.status = 503

\* C19 witness: three attempts, a connection error first and a 503 last.
C19_Witness ==
    /\ Finished
    /\ AllTransient
    /\ Hist.max_tries = 3
    /\ Len(Log) = 3
    /\ Log[1].conn
    /\ Log[3].status = 503
    /\ Slept = <<1, 2>>
    /\ Res.exc = "HTTPError"

\* The step is an attempt of c1 that was answered 2xx.
Answered2xx ==
    /\ Len(netlog'["c1"]) = Len(Log) + 1
    /\ Is2xx(netlog'["c1"][Len(Log) + 1])

\* C20: an attempt answered 2xx stores the rate-limit headers of the
\* response in the limiter (the reset delay d as now + d; a header that is
\* absent leaves its field alone), ends the request returning None for an
\* empty body and the parsed body otherwise; no attempt of the same request
\* follows a 2xx.
C20_SuccessPath ==
    /\ [][Answered2xx =>
            LET e == netlog'["c1"][Len(Log) + 1]
                out == IF Len(stack["c1"]) = 1 THEN result'["c1"]
                                               ELSE ret'["c1"]
            IN
            /\ rl_count' = (IF e.hdr.count # None THEN e.hdr.count
                                                  ELSE rl_count)
            /\ rl_limit' = (IF e.hdr.limit # None THEN e.hdr.limit
                                                  ELSE rl_limit)
            /\ rl_until' = (IF e.hdr.reset # None THEN now + e.hdr.reset
                                                  ELSE rl_until)
            /\ Len(stack'["c1"]) = Len(stack["c1"]) - 1
            /\ out.kind = "return"
            /\ out.val = (IF e.body = "empty" THEN "None" ELSE e.body)]_vars
    /\ [](\A i \in 1..(Len(Log) - 1) :
            Is2xx(Log[i]) =>
                (Log[i].path = "auth" /\ Log[i + 1].path # "auth"))

\* C20 witness: a 200 with an empty body and rate-limit headers, returned
\* as None with the limiter updated.
C20_Witness ==
    /\ Finished
    /\ Len(Log) = 2
    /\ Is2xx(Log[2])
    /\ Log[2].body = "empty"
    /\ Log[2].hdr = LimitedHeaders
    /\ Res.kind = "return"
    /\ Res.val = "None"
    /\ rl_count = 5
    /\ rl_until = Log[2].at + 60

----------------------------------------------------------------------------
(* Properties of the RateLimiter, checked under SpecLimiter.               *)

\* The limiter is limited as the specification words it: the three fields
\* are set, count >= limit and the reset time is ahead.
SetAndLimited ==
    /\ rl_count # None
    /\ rl_limit # None
    /\ rl_until # None
    /\ rl_count >= rl_limit
    /\ now < rl_until

\* C13: in every state of a RateLimiter reached through __init__, update()
\* and make_rate_limited(), rate_limited is true exactly when count, limit
\* and reset time are all set, count >= limit and now < reset time; and
\* reading it changes none of the three fields.
C13_QueryIff ==
    /\ [](RateLimited(rl_count, rl_limit, rl_until, now) <=> SetAndLimited)
    /\ [](lim.q # "unread" => (lim.q = "True" <=> SetAndLimited))
    /\ [][lim'.q # "unread" =>
            UNCHANGED <<rl_count, rl_limit, rl_until, now>>]_vars

\* C13 witness: the limiter is read as limited after an update() that
\* carried no limit, one second after it was constructed.
C13_Witness ==
    /\ lim.q = "True"
    /\ lim.last = "update"
    /\ lim.raw.limit = None
    /\ lim.raw.count = 0
    /\ now > StartTime

\* The last call on the limiter was an update() whose count and limit were
\* the same nonzero number and whose reset delay was a nonzero number.
UpdatedToLimit ==
    /\ lim.last = "update"
    /\ lim.raw.count > 0
    /\ lim.raw.count = lim.raw.limit
    /\ lim.raw.reset > 0

\* C14: after update() with any number as count and limit alike and any
\* number d as reset delay, and until the next update() or
\* make_rate_limited(), rate_limited is true at every time before (time of
\* the update) + d and false from then on.
C14_AsStated ==
    (/\ lim.last = "update"
     /\ lim.raw.count >= 0
     /\ lim.raw.count = lim.raw.limit
     /\ lim.raw.reset >= 0)
    => (RateLimited(rl_count, rl_limit, rl_until, now)
            <=> now < lim.at + lim.raw.reset)

\* C14 for the numbers other than 0: the same, when count, limit and delay
\* are nonzero.
C14_LimitedUntilReset ==
    UpdatedToLimit =>
        (RateLimited(rl_count, rl_limit, rl_until, now)
            <=> now < lim.at + lim.raw.reset)

\* C14 for the numbers other than 0, witness: the limiter read as not limited at the reset time of such an
\* update, two seconds after it.
C14_Witness ==
    /\ UpdatedToLimit
    /\ lim.raw.reset > 1
    /\ now = lim.at + lim.raw.reset
    /\ lim.q = "False"

\* The step is a call of update().
UpdateStep == lim'.ops = lim.ops + 1 /\ lim'.last = "update"

\* C15: update() stores every header that carries a number, 0 included
\* (count and limit as they are, the reset delay d as now + d), and leaves
\* alone each field whose header is absent.
C15_OverwritePresent ==
    [][UpdateStep =>
        /\ lim'.raw.count >= 0 => rl_count' = lim'.raw.count
        /\ lim'.raw.limit >= 0 => rl_limit' = lim'.raw.limit
        /\ lim'.raw.reset >= 0 => rl_until' = now + lim'.raw.reset
        /\ lim'.raw.count = None => rl_count' = rl_count
        /\ lim'.raw.limit = None => rl_limit' = rl_limit
        /\ lim'.raw.reset = None => rl_until' = rl_until]_vars

\* C15 for the numbers other than 0: update() stores every header that
\* carries a nonzero number and leaves alone each field whose header is
\* absent, is not a number, or is 0.
C15_OverwriteNonzero ==
    [][UpdateStep =>
        /\ lim'.raw.count > 0 => rl_count' = lim'.raw.count
        /\ lim'.raw.limit > 0 => rl_limit' = lim'.raw.limit
        /\ lim'.raw.reset > 0 => rl_until' = now + lim'.raw.reset
        /\ lim'.raw.count \in {None, NaN, 0} => rl_count' = rl_count
        /\ lim'.raw.limit \in {None, NaN, 0} => rl_limit' = rl_limit
        /\ lim'.raw.reset \in {None, NaN, 0} => rl_until' = rl_until]_vars

\* C16: after make_rate_limited(t), rate_limited is true at every time
\* before (time of the call) + t, whatever update() calls came since.
C16_ForcedWindow ==
    (lim.make_at # None /\ now < lim.make_at + lim.make_t) =>
        RateLimited(rl_count, rl_limit, rl_until, now)

\* C16 without update(): the same, as long as make_rate_limited() is the
\* last call made on the limiter.
C16_ForcedWindowNoUpdate ==
    (lim.last = "make" /\ now < lim.make_at + lim.make_t) =>
        RateLimited(rl_count, rl_limit, rl_until, now)

----------------------------------------------------------------------------
(* Properties of the checks of do_api_request's arguments, checked under   *)
(* SpecValidate, whose only caller is c1.                                  *)

Args == Hist.args

\* The call of the step, or of the state, was not let into the try block:
\* it is over, raised ValueError, and made no network call and no sleep.
RejectedLocally ==
    /\ ~Active("c1")
    /\ Res.kind = "raise"
    /\ Res.exc = "ValueError"
    /\ Log = <<>>
    /\ Slept = <<>>

\* C17: a call whose max_tries is outside 1..10 raises ValueError before
\* any network call.
C17_MaxTriesChecked ==
    (/\ calls >= 1
     /\ Args.max_tries # None
     /\ Args.max_tries \notin 1..10)
    => RejectedLocally

\* The arguments C18 speaks of: no bearer token, a path outside /v3/, or a
\* GET with a body.
NoToken == Hist.token = None
OutsideV3 == Args.url \in {"", "/v2/profile"}
GetWithBody == Args.method = "get" /\ Args.data = "body"

\* C18: a call with no bearer token, with a path outside /v3/ or that is a
\* GET with a body raises ValueError with no network call and no sleep, and
\* the step that makes the call leaves the limiter, the tokens and the time
\* of the last refresh as they were.
C18_LocalRejection ==
    /\ []((calls >= 1 /\ (NoToken \/ OutsideV3 \/ GetWithBody))
            => RejectedLocally)
    /\ [][(calls' = calls + 1
            /\ (NoToken \/ OutsideV3 \/ GetWithBody)')
           => UNCHANGED <<rl_count, rl_limit, rl_until, auth_token,
                          refresh_token, last_refresh>>]_vars

\* C18 for the paths that are not empty: the same, when a path outside
\* /v3/ has at least one character.
C18_LocalRejectionNonEmpty ==
    /\ []((calls >= 1 /\ Args.url # ""
            /\ (NoToken \/ OutsideV3 \/ GetWithBody))
            => RejectedLocally)
    /\ [][(calls' = calls + 1
            /\ (NoToken \/ OutsideV3 \/ GetWithBody)')
           => UNCHANGED <<rl_count, rl_limit, rl_until, auth_token,
                          refresh_token, last_refresh>>]_vars

----------------------------------------------------------------------------
(* Properties of the resolver, checked under SpecResolver.                 *)

Last == rlog.last

\* The step is a call of op on the resolver.
CallStep(op) ==
    /\ rlog'.rev = rlog.rev
    /\ rlog' # rlog
    /\ rlog'.last.op = op

\* The label map is cached and holds the string the call passes.
InLabelCache(name) ==
    /\ lazy.name2stream.cached
    /\ name \in DOMAIN lazy.name2stream.val

\* The cached list has an item with this content id.
IsCachedContentId(name) ==
    /\ lazy.streams.cached
    /\ name \in DOMAIN DictById(lazy.streams.val)

\* C22 as stated: at most one list request succeeds, and get(label) for a
\* label of the cached label map returns the entity the map holds for it,
\* with no list request.
C22_AsStated ==
    /\ [](rlog.oks <= 1)
    /\ [][(CallStep("get") /\ InLabelCache(rlog'.last.arg)) =>
            /\ rlog'.last.kind = "return"
            /\ rlog'.last.val = lazy.name2stream.val[rlog'.last.arg]
            /\ rlog'.last.net = 0]_vars

\* C22 amended: at most one list request succeeds, and get(label) for a
\* label of the cached label map that is not of UUID shape and is not the
\* content id of an item of the list returns the entity the map holds for
\* it, with no list request.
C22_OneListRequest ==
    /\ [](rlog.oks <= 1)
    /\ [][(/\ CallStep("get")
           /\ InLabelCache(rlog'.last.arg)
           /\ ~UuidMatch(rlog'.last.arg)
           /\ ~IsCachedContentId(rlog'.last.arg)) =>
            /\ rlog'.last.kind = "return"
            /\ rlog'.last.val = lazy.name2stream.val[rlog'.last.arg]
            /\ rlog'.last.net = 0]_vars

\* C22 witness: after one successful list request and a failed one, get of
\* a label that is no content id returned the listed entity with no request.
C22_Witness ==
    /\ rlog.oks = 1
    /\ rlog.failed >= 1
    /\ Last.op = "get"
    /\ Last.arg = <<"tech">>
    /\ Last.kind = "return"
    /\ Last.val.label = <<"tech">>
    /\ Last.net = 0
    /\ lazy.name2stream.cached
    /\ <<"tech">> \notin DOMAIN DictById(lazy.streams.val)

\* C23: get(s) for a string s of UUID shape returns a placeholder entity
\* whose id is user/abcd/category/s (the resolver's parts joined with s by
\* '/'), makes no list request and leaves the caches as they were, whether
\* or not the list is cached.
C23_UuidPlaceholder ==
    [][(CallStep("get") /\ UuidMatch(rlog'.last.arg)) =>
        /\ rlog'.last.kind = "return"
        /\ rlog'.last.val.id =
              <<"user", "/", "abcd", "/", "category", "/">> \o rlog'.last.arg
        /\ rlog'.last.val.label = NoLabel
        /\ rlog'.last.net = 0
        /\ lazy' = lazy]_vars

\* C23 witness: get of a UUID on a resolver that has never fetched its list.
C23_Witness ==
    /\ Last.op = "get"
    /\ Last.arg = <<"uuid1">>
    /\ Last.kind = "return"
    /\ Last.val.id = <<"user", "/", "abcd", "/", "category", "/", "uuid1">>
    /\ rlog.net = 0
    /\ ~lazy.streams.cached
    /\ ~lazy.populated

\* The content ids and the labels of a list.
IdsOf(list) == {ContentIdOf(list[i]) : i \in DOMAIN list}
LabelsOf(list) == {list[i].label : i \in DOMAIN list}

\* The step is get(s) for a string s that is not of UUID shape, and no list
\* request failed during the call: the list was cached or has been fetched.
GetOnList ==
    /\ CallStep("get")
    /\ ~UuidMatch(rlog'.last.arg)
    /\ rlog'.last.net = rlog'.last.oks
    /\ lazy'.streams.cached

\* C24: get(s) for a non-UUID string s returns the item whose content id is
\* s if the list has one, even when s is also a label; otherwise the item
\* whose label is s if the list has one; otherwise it raises ValueError with
\* a message that lists the labels of the list.
C24_IdThenLabel ==
    [][GetOnList =>
        LET s == rlog'.last.arg
            list == lazy'.streams.val
            r == rlog'.last
        IN
        IF s \in IdsOf(list)
        THEN r.kind = "return" /\ ContentIdOf(r.val) = s
        ELSE IF s \in LabelsOf(list)
        THEN r.kind = "return" /\ r.val.label = s
        ELSE /\ r.kind = "raise"
             /\ r.exc = "ValueError"
             /\ r.why = "lookup"
             /\ r.avail = LabelsOf(list)]_vars

\* C24 witness: get of a string that is neither a content id nor a label of
\* a cached list with two labels.
C24_Witness ==
    /\ Last.op = "get"
    /\ Last.arg = <<"nope">>
    /\ Last.kind = "raise"
    /\ Last.exc = "ValueError"
    /\ Last.avail = {<<"recipes">>, <<"tech">>}
    /\ lazy.streams.cached
    /\ LabelsOf(lazy.streams.val) = Last.avail

\* C25: the call that follows refresh() and reads the list (streams,
\* get_from_name, or get_from_id and get of a string that is not of UUID
\* shape) makes a list request, and an entity it returns from the list is an
\* item of the list served at that time.
C25_RefreshRefetches ==
    [][(/\ Last.op = "refresh"
        /\ rlog'.rev = rlog.rev
        /\ rlog' # rlog
        /\ rlog'.last.op \in {"streams", "get_from_name", "get_from_id", "get"}
        /\ ~UuidMatch(rlog'.last.arg)) =>
        /\ rlog'.last.net >= 1
        /\ (rlog'.last.kind = "return" /\ rlog'.last.op # "streams") =>
              \E i \in DOMAIN listing : rlog'.last.val = listing[i]]_vars

----------------------------------------------------------------------------
(* Properties of stream ids, checked under SpecStreamId.                   *)

\* The four fields of a stream id, joined by '/'.
JoinedFields(o) ==
    o.source \o <<"/">> \o o.source_id \o <<"/">> \o o.type \o <<"/">>
        \o o.content_id

\* The constructor was called with a parts list [source, sourceId, type,
\* contentId] alone, of a user stream for UserStreamId and of an enterprise
\* stream (whose content id holds no '/') for EnterpriseStreamId.
FromFourParts ==
    /\ sid.stage \in {"built", "parsed"}
    /\ sid.args.parts.given
    /\ ~sid.args.id_.given
    /\ Len(sid.args.parts.val) = 4
    /\ IF sid.args.kind = "user"
       THEN sid.args.parts.val[1] = <<"user">>
       ELSE /\ sid.args.parts.val[1] = <<"enterprise">>
            /\ sid.args.parts.val[4] = <<"gaming">>

\* C26: the stream id built from such a parts list has the parts joined by
\* '/' as its id, and the id parsed back, by from_string or by the
\* constructor, gives a stream id with the source, source id, type and
\* content id of the parts.
C26_RoundTrip ==
    FromFourParts =>
        LET p == sid.args.parts.val IN
        /\ sid.obj.ok
        /\ sid.obj.id = p[1] \o <<"/">> \o p[2] \o <<"/">> \o p[3]
                            \o <<"/">> \o p[4]
        /\ sid.stage = "parsed" =>
              /\ sid.parsed.ok
              /\ sid.parsed.source = p[1]
              /\ sid.parsed.source_id = p[2]
              /\ sid.parsed.type = p[3]
              /\ sid.parsed.content_id = p[4]

\* C27: a stream id the constructor accepted has its four fields, joined by
\* '/', as its id, and nothing changes it afterwards.
C27_IdIsJoinedFields ==
    /\ []((sid.stage \in {"built", "parsed"} /\ sid.obj.ok) =>
              sid.obj.id = JoinedFields(sid.obj))
    /\ [][sid.stage \in {"built", "parsed"} => sid'.obj = sid.obj]_vars

----------------------------------------------------------------------------
(* Properties of stream_bundles(), checked under SpecBundles.              *)

\* The generator has made requests and none of them raised.
BundlesRunning ==
    /\ ioc.reqs # <<>>
    /\ ~(ioc.pc = "raised" /\ ioc.exc = "HTTPError")

----------------------------------------------------------------------------
(* The attempts of one do_api_request call against its max_tries, checked  *)
(* under SpecValidate: any max_tries the call takes.                       *)

\* The network attempts the call itself has made: those of its own while
\* loop, lines 165-193.
OwnAttempts == Cardinality(OrigAttempts)

\* C30: a do_api_request call makes at most max_tries network attempts of
\* its own, whatever max_tries it was given and however the server answers.
C30_AtMostMaxTries ==
    calls >= 1 => OwnAttempts <= Hist.max_tries

----------------------------------------------------------------------------
(* The page requests of one traversal, checked under SpecOptions.          *)

\* The parameters of a request other than continuation.
IsOption(q) == ~IsContinuation(q)
OptionParams(curl) == SelectSeq(curl.params, IsOption)

\* The continuation the response to a request carries.
TokenAfter(curl) == RespContinuation(PageAsked(curl))

\* C31: in a traversal of a fresh or reset cursor the first page request
\* carries no continuation parameter, and each later one carries exactly the
\* token of the preceding response, with the stream id and the option
\* parameters of the first request.
C31_RequestChain ==
    (origin \in {"fresh", "reset"} /\ spc # "idle") =>
        \A i \in 1..Len(sent) :
            /\ sent[i].streamId = sent[1].streamId
            /\ OptionParams(sent[i]) = OptionParams(sent[1])
            /\ i = 1 => ContinuationParams(sent[i]) = <<>>
            /\ i > 1 => ContinuationParams(sent[i]) =
                            <<[k |-> "continuation",
                               v |-> TokenAfter(sent[i - 1])]>>

----------------------------------------------------------------------------
(* The two special values of self.continuation, checked under SpecStream.  *)

\* A cursor nobody has iterated since it was constructed or reset.
Untouched == spc = "idle" /\ origin \in {"fresh", "reset"}

\* The source has answered the last request with no continuation.
SourceExhausted ==
    /\ spc \in {"outer", "inner", "yield", "done"}
    /\ requests # <<>>
    /\ RespContinuation(LastPage) = None

\* C32 as stated: a fresh or reset cursor holds None and an exhausted one
\* holds the empty string.
C32_AsStated ==
    /\ Untouched => continuation = None
    /\ SourceExhausted => continuation = EmptyStr

\* C32: the empty string means that the initial request is still needed and
\* None that there is no more data: a fresh or reset cursor holds the empty
\* string, a request made while the cursor holds it carries no continuation
\* and is answered with the first page, a cursor whose source is exhausted
\* holds None, and no request is made while the cursor holds None.
C32_EmptyThenNone ==
    /\ [](Untouched => continuation = EmptyStr)
    /\ [](SourceExhausted => continuation = None)
    /\ [][(continuation = EmptyStr /\ Len(sent') = Len(sent) + 1) =>
            /\ ContinuationParams(sent'[Len(sent')]) = <<>>
            /\ PageAsked(sent'[Len(sent')]) = 1]_vars
    /\ [][continuation = None =>
            (requests' = requests \/ requests' = <<>>)]_vars

\* C32 witness: a cursor that was reset and then consumed until the source
\* had no more data.
C32_Witness ==
    /\ origin = "reset"
    /\ spc = "done"
    /\ SourceExhausted
    /\ continuation = None
    /\ Len(requests) >= 2

----------------------------------------------------------------------------
(* A page request that raises, checked under SpecStream.                   *)

\* C37: a page request that raises ends the iteration with the cursor's
\* continuation and buffer as they were before the request, and the next
\* iteration of the same cursor, before it yields anything, makes the
\* request that raised once more.
C37_RaiseLeavesCursor ==
    /\ [][(spc = "fetch" /\ spc' = "raised") =>
            (continuation' = continuation /\ buffer' = buffer)]_vars
    /\ [](start.raised =>
            IF requests = <<>>
            THEN yielded = <<>> /\ spc \in {"outer", "inner", "fetch"}
            ELSE requests[1] = start.last)

\* C37 witness: the request for the second page raised, and the next
\* iteration asked for the second page again and ran to its end.
C37_Witness ==
    /\ start.raised
    /\ start.last = 1
    /\ spc = "done"
    /\ requests[1] = 1
    /\ yielded # <<>>

----------------------------------------------------------------------------
(* Iterating a cursor again without reset(), checked under SpecStream.     *)

\* The first k items list.pop() takes from buf_, in the order taken.
RECURSIVE Popped(_, _)
Popped(buf_, k) ==
    IF k = 0 \/ buf_ = <<>> THEN <<>>
    ELSE <<PopItem(buf_)>> \o Popped(PopRest(buf_), k - 1)

\* The prefix of s of length at most k.
Prefix(s, k) == SubSeq(s, 1, Min(k, Len(s)))

\* A cursor whose traversal was exhausted: no more data, nothing buffered.
Exhausted(cont_, buf_) == cont_ = None /\ buf_ = <<>>

\* C38: a new iteration of a cursor starts its count at zero and leaves the
\* buffer and the continuation as the previous iteration left them; it
\* yields the leftover buffer first and its first request carries the stored
\* continuation; started on an exhausted cursor it yields nothing and makes
\* no request.
C38_IterateAgain ==
    /\ [][(spc # "outer" /\ spc' = "outer" /\ runs' = runs + 1) =>
            /\ n' = 0
            /\ continuation' = continuation
            /\ buffer' = buffer]_vars
    /\ [](n <= max_count /\ n <= Len(yielded) /\ Len(yielded) <= n + 1)
    /\ [](origin = "again" /\ spc # "idle" =>
            /\ Prefix(yielded, Len(start.buf)) =
                   Popped(start.buf, Len(yielded))
            /\ requests # <<>> =>
                   requests[1] = ContinuationParam(start.cont)
            /\ Exhausted(start.cont, start.buf) =>
                   (yielded = <<>> /\ requests = <<>>))

\* C38 witness: the second iteration of an exhausted cursor is over with
\* nothing yielded and nothing requested.
C38_Witness ==
    /\ origin = "again"
    /\ spc = "done"
    /\ Exhausted(start.cont, start.buf)
    /\ start.last # None
    /\ max_count > 0
    /\ yielded = <<>>
    /\ requests = <<>>

----------------------------------------------------------------------------
(* The timeout of the HTTP calls, checked under SpecValidate.              *)

----------------------------------------------------------------------------
(* The refresh calls of a sequence of do_api_request calls, checked under  *)
(* SpecSession.                                                            *)

\* This step starts a refresh call: a nested call to the auth endpoint.
RefreshStarts ==
    /\ Len(stack'["c1"]) = Len(stack["c1"]) + 1
    /\ stack'["c1"][Len(stack'["c1"])].path = "auth"
    /\ Len(stack["c1"]) >= 1

\* C35: a refresh call is only started more than 24h after the attempt
\* recorded before it, whatever became of that attempt, and it records the
\* time of its own start; the call whose 401 starts it is not a call to the
\* auth endpoint, so a call to the auth endpoint never has a nested call.
C35_RefreshSpacing ==
    /\ [][RefreshStarts =>
            /\ now - last_refresh > RefreshWindow
            /\ last_refresh' = now
            /\ Top("c1").path # "auth"]_vars
    /\ [][last_refresh' # last_refresh => RefreshStarts]_vars
    /\ [](\A i \in 1..(Len(stack["c1"]) - 1) : stack["c1"][i].path # "auth")

\* C35 witness: a second refresh call, made by a later call more than 24h
\* after a refresh attempt that failed.
C35_Witness ==
    /\ calls = 2
    /\ Hist.last_refresh > 0
    /\ Hist.token = 0
    /\ Hist.refreshes = 1
    /\ last_refresh - Hist.last_refresh > RefreshWindow

----------------------------------------------------------------------------
(* The repeated call after a refresh that stored a token, checked under    *)
(* SpecSession.                                                            *)

\* The repeated call is over and it raised.
RetryRaised ==
    /\ Active("c1")
    /\ Top("c1").pc = "retrying"
    /\ ret["c1"] # NoOutcome
    /\ ret["c1"].kind = "raise"

\* The last request of a finished call was an attempt of the repeated call
\* and it failed.
LastReissueFailed ==
    /\ Hist.reissues = 1
    /\ Log # <<>>
    /\ Len(Log) \in ReissueAttempts
    /\ ~Is2xx(Log[Len(Log)])

\* C36: when the call repeated after a successful refresh raises, whatever
\* it raises, the caller gets Unauthorized for the original 401, and the
\* stored bearer token is the refreshed one.
C36_RetryFailure ==
    /\ [][RetryRaised =>
            /\ result'["c1"] = Raised("UnauthorizedAPIError", 401)
            /\ ~Active("c1")'
            /\ auth_token' = Hist.refresh_ret.token
            /\ auth_token' # Hist.token]_vars
    /\ []((Finished /\ LastReissueFailed) =>
            /\ Res.kind = "raise"
            /\ Res.exc = "UnauthorizedAPIError"
            /\ Res.status = 401
            /\ auth_token = Hist.refresh_ret.token
            /\ auth_token # Hist.token)

\* C36 witness: the repeated request was answered 500 and the caller got
\* Unauthorized with the new token stored.
C36_Witness ==
    /\ Finished
    /\ LastReissueFailed
    /\ Log[Len(Log)].status = 500
    /\ ~Log[Len(Log)].conn
    /\ Res.exc = "UnauthorizedAPIError"
    /\ auth_token = Hist.refresh_ret.token

----------------------------------------------------------------------------
(* Two threads in the handler of a 401, checked under SpecConcurrent.      *)

\* Thread c has passed the test of line 199 and takes its next step.
PastCheck(c) ==
    /\ Active(c)
    /\ Top(c).pc = "checked"
    /\ stack'[c] # stack[c]

\* The refresh call of thread c has returned a token and c takes its next
\* step.
GotToken(c) ==
    /\ Active(c)
    /\ Top(c).pc = "refreshing"
    /\ ret[c] # NoOutcome
    /\ HasAccessToken(ret[c])
    /\ stack'[c] # stack[c]

\* C33: nothing stands between the test of line 199 and what follows it: a
\* thread that passed the test records its attempt and issues its refresh
\* call whatever another thread has recorded since, and a thread whose
\* refresh call returned a token writes it whatever token is stored by then.
C33_Unserialized ==
    /\ [][\A c \in Callers : PastCheck(c) =>
            /\ last_refresh' = now
            /\ hist'[c].refreshes = hist[c].refreshes + 1
            /\ Len(stack'[c]) = Len(stack[c]) + 1
            /\ stack'[c][Len(stack'[c])].path = "auth"]_vars
    /\ [][\A c \in Callers : GotToken(c) =>
            /\ auth_token' = ret[c].token
            /\ hist'[c].reissues = hist[c].reissues + 1]_vars

\* C33 witness: both threads passed the test on the attempt time the session
\* was constructed with, both issued a refresh call, and both wrote the
\* token.
C33_Witness ==
    /\ \A c \in Callers :
          /\ hist[c].checked = 0
          /\ hist[c].refreshes = 1
          /\ hist[c].reissues = 1
          /\ \E i \in 1..Len(netlog[c]) : netlog[c][i].path = "auth"
    /\ now - StartTime <= RefreshWindow
====
